---------------------------- MODULE Spec2Model ----------------------------
(***************************************************************************)
(* Model of the back-testing engines of ctb_analysis:                      *)
(*   scripts/simple_dca.py         SimpleDCA.run_dca                       *)
(*   scripts/buy_the_dip.py        BuyTheDip.run_strategy                  *)
(*   scripts/compare_strategies.py StrategyComparison                      *)
(*   scripts/dca_backtest.py       DCABacktest.run_dca_strategy            *)
(*   scripts/analyze_drops.py      analyze_drops                           *)
(*   scripts/monthly_patterns.py   analyze_seasonality                     *)
(*   scripts/analyze_august.py     analyze_august                          *)
(*                                                                         *)
(* Numbers.  The Python code computes with int and float.  Here every      *)
(* number is an exact rational <<n, d>> in lowest terms with d > 0, so     *)
(* the model follows the arithmetic of the code without float rounding.    *)
(* Optional values (None, the empty dict {}) are the empty tuple <<>>,     *)
(* a present value v is the one-element tuple <<v>>.                       *)
(***************************************************************************)
EXTENDS Integers, Sequences, FiniteSets, TLC

VARIABLES
    df,                  \* the price series: a sequence of bars
    monthly_investment,  \* SimpleDCA.monthly_investment / BuyTheDip.monthly_savings
    day_of_month,        \* SimpleDCA.day_of_month
    dip_threshold,       \* BuyTheDip.dip_threshold (a rational)
    \* ---- SimpleDCA.run_dca
    dca_pc,              \* "idle" | "start" | "loop" | "done" | "raised"
    dca_k,               \* number of entries of unique_months already iterated
    dca_total_invested,  \* local total_invested
    dca_total_coins,     \* local total_coins
    dca_purchases,       \* local purchases
    dca_self,            \* [results, purchases]: self.results, self.purchases
    dca_ret,             \* the value run_dca returned (<<>> is None)
    dca_error,           \* the exception run_dca raised ("" when none)
    \* ---- BuyTheDip.run_strategy
    dip_pc,              \* "idle" | "start" | "loop" | "done" | "raised"
    dip_i,               \* number of bars already iterated
    accumulated_cash,
    dip_total_invested,
    dip_total_coins,
    dip_purchases,
    dip_days,
    missed_opportunities,
    dip_self,
    dip_ret,
    dip_error,
    \* ---- StrategyComparison
    cmp_pc,              \* "off" | "start" | "run_dca" | "run_dip" | "ran" | "raised"
    cmp_results,         \* self.results: <<>> or <<[simple_dca, buy_the_dip]>>
    cmp_print,           \* outcome of print_comparison: <<>> before the call
    cmp_export,          \* outcome of export_comparison: <<>> before the call
    \* ---- DCABacktest.run_dca_strategy
    target_month,        \* the argument of run_dca_strategy
    bt_pc,               \* "idle" | "start" | "loop" | "done"
    bt_k,                \* number of rows of all_monthly_data already iterated
    bt_accumulated_cash, \* local accumulated_cash
    bt_total_invested,   \* local total_invested
    bt_total_coins,      \* local total_coins
    bt_purchases,        \* local purchases
    bt_ret,              \* the value run_dca_strategy returned (<<>> is None)
    \* ---- a caller that runs an engine twice
    dca_first,           \* <<>>, or <<[ret, self, fresh]>> of the first run_dca
    dip_first,           \* <<>>, or <<[ret, self, fresh]>> of the first run_strategy
    \* ---- analyze_drops, analyze_seasonality
    drops_results,       \* <<>> before the call, <<results>> after it
    seasonality,         \* <<>> before the call, <<[seasonality_df, stats]>> after
    \* ---- analyze_august
    august               \* <<>> before the call, <<[august_data, totals]>> after

inputs   == <<df, monthly_investment, day_of_month, dip_threshold>>
dca_vars == <<dca_pc, dca_k, dca_total_invested, dca_total_coins, dca_purchases,
              dca_self, dca_ret, dca_error>>
dip_vars == <<dip_pc, dip_i, accumulated_cash, dip_total_invested, dip_total_coins,
              dip_purchases, dip_days, missed_opportunities, dip_self, dip_ret,
              dip_error>>
cmp_vars == <<cmp_pc, cmp_results, cmp_print, cmp_export>>
bt_vars  == <<target_month, bt_pc, bt_k, bt_accumulated_cash, bt_total_invested,
              bt_total_coins, bt_purchases, bt_ret>>
run_vars == <<dca_first, dip_first>>
ana_vars == <<drops_results, seasonality, august>>
ext_vars == <<bt_vars, run_vars, ana_vars>>
vars     == <<inputs, dca_vars, dip_vars, cmp_vars, ext_vars>>

---------------------------------------------------------------------------
(* Exact rational arithmetic *)

Abs(x) == IF x < 0 THEN -x ELSE x

RECURSIVE GCD(_, _)
GCD(a, b) == IF b = 0 THEN a ELSE GCD(b, a % b)

Norm(n, d) ==
    LET g == GCD(Abs(n), Abs(d))
        s == IF d < 0 THEN -1 ELSE 1
    IN  <<(s * n) \div g, (s * d) \div g>>

R(n)       == <<n, 1>>
Zero       == R(0)
RAdd(a, b) == Norm(a[1] * b[2] + b[1] * a[2], a[2] * b[2])
RSub(a, b) == Norm(a[1] * b[2] - b[1] * a[2], a[2] * b[2])
RMul(a, b) == Norm(a[1] * b[1], a[2] * b[2])
RDiv(a, b) == Norm(a[1] * b[2], a[2] * b[1])
RLe(a, b)  == a[1] * b[2] <= b[1] * a[2]
RLt(a, b)  == a[1] * b[2] < b[1] * a[2]
RGe(a, b)  == RLe(b, a)
RGt(a, b)  == RLt(b, a)
RAbs(a)    == <<Abs(a[1]), a[2]>>
RMax(a, b) == IF RGe(a, b) THEN a ELSE b
RMin(a, b) == IF RLe(a, b) THEN a ELSE b

RECURSIVE RSum(_)
RSum(s) == IF s = <<>> THEN Zero ELSE RAdd(RSum(SubSeq(s, 1, Len(s) - 1)), s[Len(s)])

---------------------------------------------------------------------------
(* Calendar: what pd.Timestamp(year=, month=, day=) accepts *)

IsLeap(y) == (y % 4 = 0 /\ y % 100 # 0) \/ y % 400 = 0

DaysInMonth(y, m) ==
    IF m = 2 THEN (IF IsLeap(y) THEN 29 ELSE 28)
    ELSE IF m \in {4, 6, 9, 11} THEN 30 ELSE 31

Date(y, m, d) == [year |-> y, month |-> m, day |-> d]
DateKey(t)    == t.year * 10000 + t.month * 100 + t.day
DateGE(a, b)  == DateKey(a) >= DateKey(b)
DateLT(a, b)  == DateKey(a) < DateKey(b)

---------------------------------------------------------------------------
(* Sequence helpers *)

RECURSIVE SelectIdx(_, _, _)
\* the elements of s, in order, that satisfy Test
SelectIdx(s, Test(_), i) ==
    IF i > Len(s) THEN <<>>
    ELSE IF Test(s[i]) THEN <<s[i]>> \o SelectIdx(s, Test, i + 1)
    ELSE SelectIdx(s, Test, i + 1)

Filter(s, Test(_)) == SelectIdx(s, Test, 1)

\* the sequence F(s[1]), ..., F(s[Len(s)])
Map(s, F(_)) == [i \in 1..Len(s) |-> F(s[i])]

Prefix(s, n) == SubSeq(s, 1, n)

RECURSIVE SortDates(_)
\* the dates of the finite set D in ascending order
SortDates(D) ==
    IF D = {} THEN <<>>
    ELSE LET m == CHOOSE x \in D : \A y \in D : DateKey(x) <= DateKey(y)
         IN  <<m>> \o SortDates(D \ {m})


---------------------------------------------------------------------------
(* Input domains *)

MaxBarsDCA == 3      \* longest series given to SimpleDCA alone
MaxBarsDip == 5      \* longest series given to BuyTheDip alone
MaxBarsCmp == 3      \* longest series given to StrategyComparison

\* <<open, close>> of a bar
Shapes     == {<<100, 100>>, <<100, 120>>, <<100, 80>>, <<120, 100>>}
ShapesDCA  == {<<100, 100>>, <<100, 120>>, <<100, 80>>}
Amounts    == {1000, 3000}
Thresholds == {R(-5), R(-20)}
TargetDays == {7, 30, 31}

\* a 31-day month in two different years, a leap February, a 30-day month
DatesDCA   == {Date(2023, 12, 3), Date(2023, 12, 8), Date(2023, 12, 28),
               Date(2024, 2, 3), Date(2024, 2, 28),
               Date(2024, 4, 8),
               Date(2024, 12, 3), Date(2024, 12, 28)}
\* two bars of one month, the next month, and a month after a month without bars
DatesCmp   == {Date(2024, 1, 5), Date(2024, 1, 6), Date(2024, 2, 5), Date(2024, 3, 5)}

Bar(date, shape) == [date |-> date, open |-> R(shape[1]), close |-> R(shape[2])]

\* the series over the dates D (ascending, unique) with the bar shapes f
MkSeries(D, f) ==
    LET ds == SortDates(D)
    IN  [i \in 1..Len(ds) |-> Bar(ds[i], f[ds[i]])]

---------------------------------------------------------------------------
(* SimpleDCA *)

MonthKey(ym) == ym[1] * 100 + ym[2]

RECURSIVE SortMonths(_)
SortMonths(M) ==
    IF M = {} THEN <<>>
    ELSE LET m == CHOOSE x \in M : \A y \in M : MonthKey(x) <= MonthKey(y)
         IN  <<m>> \o SortMonths(M \ {m})

\* df.groupby(['year', 'month']).size().reset_index()[['year', 'month']]:
\* the distinct (year, month) pairs of the series, sorted by the group keys
UniqueMonths(s) ==
    SortMonths({<<s[i].date.year, s[i].date.month>> : i \in 1..Len(s)})

\* self.df[(self.df['year'] == year) & (self.df['month'] == month)]
MonthData(s, year, month) ==
    Filter(s, LAMBDA b : b.date.year = year /\ b.date.month = month)

\* pd.Timestamp(year=, month=, day=) raises ValueError for a day the month lacks
TimestampValid(year, month, day) ==
    month \in 1..12 /\ day \in 1..DaysInMonth(year, month)

BuyDateFallbackFirst(month_data, target_date) ==
    LET matching_dates == Filter(month_data, LAMBDA b : DateGE(b.date, target_date))
    IN  IF Len(matching_dates) > 0
        THEN matching_dates[1].date
        ELSE month_data[1].date

\* available_dates[available_dates >= target_date][0], else available_dates[-1]
BuyDate(month_data, target_date) ==
    LET matching_dates == Filter(month_data, LAMBDA b : DateGE(b.date, target_date))
    IN  IF Len(matching_dates) > 0
        THEN matching_dates[1].date
        ELSE month_data[Len(month_data)].date

OpenAt(s, date) == s[CHOOSE i \in 1..Len(s) : s[i].date = date].open

\* self.df.loc[buy_date, 'close'] (dates are unique)
CloseAt(s, date) == s[CHOOSE i \in 1..Len(s) : s[i].date = date].close

\* coins_bought = self.monthly_investment / price
DCACoinsBought(investment, price) == RDiv(investment, price)

DCAAccumulateLatest(total, amount) == amount

\* total_coins += coins_bought; total_invested += self.monthly_investment
DCAAccumulate(total, amount) == RAdd(total, amount)

DCAPurchaseAvgOfPrice(buy_date, year, month, price, investment, total_invested, total_coins) ==
    [date           |-> buy_date,
     year           |-> year,
     month          |-> month,
     price          |-> price,
     investment     |-> investment,
     coins_bought   |-> DCACoinsBought(investment, price),
     total_invested |-> total_invested,
     total_coins    |-> total_coins,
     avg_price      |-> price]

\* purchase = {...}, lines 101-111
DCAPurchase(buy_date, year, month, price, investment, total_invested, total_coins) ==
    [date           |-> buy_date,
     year           |-> year,
     month          |-> month,
     price          |-> price,
     investment     |-> investment,
     coins_bought   |-> DCACoinsBought(investment, price),
     total_invested |-> total_invested,
     total_coins    |-> total_coins,
     avg_price      |-> RDiv(total_invested, total_coins)]

CurrentPriceFirst(s) == s[1].close

\* current_price = self.df['close'].iloc[-1]
CurrentPrice(s) == s[Len(s)].close

DCAResults(s, purchases, total_invested, total_coins) ==
    LET current_price == CurrentPrice(s)
        current_value == RMul(total_coins, current_price)
        total_return  == RSub(current_value, total_invested)
    IN  [total_invested |-> total_invested,
         total_coins    |-> total_coins,
         avg_cost       |-> IF RGt(total_coins, Zero)
                            THEN RDiv(total_invested, total_coins) ELSE Zero,
         current_price  |-> current_price,
         current_value  |-> current_value,
         total_return   |-> total_return,
         return_pct     |-> IF RGt(total_invested, Zero)
                            THEN RMul(RDiv(total_return, total_invested), R(100))
                            ELSE Zero,
         num_purchases  |-> Len(purchases),
         first_purchase |-> purchases[1].date,
         last_purchase  |-> purchases[Len(purchases)].date,
         purchases      |-> purchases]

DCAStartKeepTotals ==
    /\ dca_pc = "start"
    /\ dca_k' = 0
    /\ dca_pc' = "loop" /\ dca_error' = ""
    /\ UNCHANGED <<dca_total_invested, dca_total_coins, dca_purchases>>
    /\ UNCHANGED <<dca_self, dca_ret>>
    /\ UNCHANGED <<inputs, dip_vars, cmp_vars, ext_vars>>

\* run_dca, lines 56-70: the date columns, the accumulators, the banner.
\* self.df.index.min().strftime raises ValueError on an empty series (NaT).
DCAStart ==
    /\ dca_pc = "start"
    /\ dca_k' = 0
    /\ dca_total_invested' = Zero
    /\ dca_total_coins' = Zero
    /\ dca_purchases' = <<>>
    /\ IF Len(df) = 0
       THEN dca_pc' = "raised" /\ dca_error' = "ValueError"
       ELSE dca_pc' = "loop" /\ dca_error' = ""
    /\ UNCHANGED <<dca_self, dca_ret>>
    /\ UNCHANGED <<inputs, dip_vars, cmp_vars, ext_vars>>

\* one iteration of `for idx, row in unique_months.iterrows()`, lines 72-112
DCAMonth ==
    /\ dca_pc = "loop"
    /\ dca_k < Len(UniqueMonths(df))
    /\ LET row        == UniqueMonths(df)[dca_k + 1]
           year       == row[1]
           month      == row[2]
           month_data == MonthData(df, year, month)
       IN  IF Len(month_data) = 0
           THEN /\ dca_k' = dca_k + 1
                /\ UNCHANGED <<dca_pc, dca_total_invested, dca_total_coins,
                               dca_purchases, dca_error>>
           ELSE IF ~TimestampValid(year, month, day_of_month)
           THEN /\ dca_pc' = "raised"
                /\ dca_error' = "ValueError"
                /\ UNCHANGED <<dca_k, dca_total_invested, dca_total_coins,
                               dca_purchases>>
           ELSE LET buy_date == BuyDate(month_data, Date(year, month, day_of_month))
                    price    == CloseAt(df, buy_date)
                    invested == DCAAccumulate(dca_total_invested,
                                              R(monthly_investment))
                    coins    == DCAAccumulate(dca_total_coins,
                                    DCACoinsBought(R(monthly_investment), price))
                IN  /\ dca_total_coins' = coins
                    /\ dca_total_invested' = invested
                    /\ dca_purchases' = Append(dca_purchases,
                           DCAPurchase(buy_date, year, month, price,
                                       R(monthly_investment), invested, coins))
                    /\ dca_k' = dca_k + 1
                    /\ UNCHANGED <<dca_pc, dca_error>>
    /\ UNCHANGED <<dca_self, dca_ret>>
    /\ UNCHANGED <<inputs, dip_vars, cmp_vars, ext_vars>>

\* after the loop, lines 114-140
DCAFinish ==
    /\ dca_pc = "loop"
    /\ dca_k = Len(UniqueMonths(df))
    /\ dca_pc' = "done"
    /\ IF Len(dca_purchases) > 0
       THEN LET results == DCAResults(df, dca_purchases, dca_total_invested,
                                      dca_total_coins)
            IN  /\ dca_self' = [results |-> <<results>>, purchases |-> dca_purchases]
                /\ dca_ret' = <<results>>
       ELSE /\ dca_ret' = <<>>
            /\ UNCHANGED dca_self
    /\ UNCHANGED <<dca_k, dca_total_invested, dca_total_coins, dca_purchases, dca_error>>
    /\ UNCHANGED <<inputs, dip_vars, cmp_vars, ext_vars>>

---------------------------------------------------------------------------
(* BuyTheDip *)

MinPurchase == 100   \* `if accumulated_cash >= 100`
DaysPerMonth == 30   \* `daily_savings = self.monthly_savings / 30`

\* __init__: self.df['daily_return'] = (close - open) / open * 100
DailyReturn(bar) == RMul(RDiv(RSub(bar.close, bar.open), bar.open), R(100))

\* daily_savings = self.monthly_savings / 30
DailySavings(monthly_savings) == RDiv(R(monthly_savings), R(DaysPerMonth))

\* accumulated_cash += daily_savings
Accrue(cash, daily_savings) == RAdd(cash, daily_savings)

IsDipDayStrict(bar, threshold) == RLt(DailyReturn(bar), threshold)

\* row['daily_return'] <= self.dip_threshold
IsDipDay(bar, threshold) == RLe(DailyReturn(bar), threshold)

HasAnyCash(cash) == RGt(cash, Zero)

\* accumulated_cash >= 100
HasMinimumCash(cash) == RGe(cash, R(MinPurchase))

\* total_coins += coins_bought; total_invested += investment
DipAccumulateBug(total, amount) == amount

DipAccumulateOfSimpleDCA(total, amount) == RAdd(dca_total_invested, amount)

DipAccumulate(total, amount) == RAdd(total, amount)

CashKeptAfterPurchase(cash) == cash

\* the cash left after a purchase: accumulated_cash = 0
CashAfterPurchase(cash) == Zero

DipPurchase(bar, investment, total_invested, total_coins) ==
    [date           |-> bar.date,
     price          |-> bar.close,
     daily_return   |-> DailyReturn(bar),
     investment     |-> investment,
     coins_bought   |-> RDiv(investment, bar.close),
     total_invested |-> total_invested,
     total_coins    |-> total_coins,
     avg_price      |-> IF RGt(total_coins, Zero)
                        THEN RDiv(total_invested, total_coins) ELSE Zero]

\* total_should_save = total_days * daily_savings
TotalShouldSave(total_days, daily_savings) == RMul(R(total_days), daily_savings)

ValueWithoutCash(current_value, cash) == current_value

\* current_value_with_cash = current_value + accumulated_cash
ValueWithCash(current_value, cash) == RAdd(current_value, cash)

DipResults(s, purchases, total_invested, total_coins, cash, n_dip, n_missed,
           monthly_savings) ==
    LET total_days        == Len(s)
        daily_savings     == DailySavings(monthly_savings)
        current_price     == CurrentPrice(s)
        current_value     == RMul(total_coins, current_price)
        total_should_save == TotalShouldSave(total_days, daily_savings)
        with_cash         == ValueWithCash(current_value, cash)
        total_return      == RSub(with_cash, total_should_save)
    IN  [total_invested          |-> total_invested,
         total_coins             |-> total_coins,
         avg_cost                |-> IF RGt(total_coins, Zero)
                                     THEN RDiv(total_invested, total_coins) ELSE Zero,
         current_price           |-> current_price,
         current_value           |-> current_value,
         accumulated_cash        |-> cash,
         current_value_with_cash |-> with_cash,
         total_return            |-> total_return,
         return_pct              |-> IF RGt(total_should_save, Zero)
                                     THEN RMul(RDiv(total_return, total_should_save),
                                               R(100))
                                     ELSE Zero,
         num_purchases           |-> Len(purchases),
         total_days              |-> total_days,
         total_should_save       |-> total_should_save,
         dip_days                |-> n_dip,
         missed_opportunities    |-> n_missed,
         first_purchase          |-> IF purchases # <<>>
                                     THEN <<purchases[1].date>> ELSE <<>>,
         last_purchase           |-> IF purchases # <<>>
                                     THEN <<purchases[Len(purchases)].date>> ELSE <<>>,
         purchases               |-> purchases]

DipHasResultAlways(purchases) == TRUE

\* whether the end of run_strategy builds a result: `if len(purchases) > 0`
DipHasResult(purchases) == Len(purchases) > 0

\* run_strategy, lines 61-83: the date columns, the accumulators, the banner.
\* self.df.index.min().strftime raises ValueError on an empty series (NaT).
DipStart ==
    /\ dip_pc = "start"
    /\ dip_i' = 0
    /\ dip_total_invested' = Zero
    /\ dip_total_coins' = Zero
    /\ accumulated_cash' = Zero
    /\ dip_purchases' = <<>>
    /\ IF Len(df) = 0
       THEN /\ dip_pc' = "raised" /\ dip_error' = "ValueError"
            /\ UNCHANGED <<dip_days, missed_opportunities>>
       ELSE /\ dip_pc' = "loop" /\ dip_error' = ""
            /\ dip_days' = 0
            /\ missed_opportunities' = 0
    /\ UNCHANGED <<dip_self, dip_ret>>
    /\ UNCHANGED <<inputs, dca_vars, cmp_vars, ext_vars>>

DipBarMissUncounted ==
    /\ dip_pc = "loop"
    /\ dip_i < Len(df)
    /\ dip_i' = dip_i + 1
    /\ LET row  == df[dip_i + 1]
           cash == Accrue(accumulated_cash, DailySavings(monthly_investment))
       IN  IF IsDipDay(row, dip_threshold)
           THEN /\ dip_days' = dip_days + 1
                /\ IF HasMinimumCash(cash)
                   THEN LET investment == cash
                            coins      == DipAccumulate(dip_total_coins,
                                               RDiv(investment, row.close))
                            invested   == DipAccumulate(dip_total_invested,
                                                        investment)
                        IN  /\ dip_total_coins' = coins
                            /\ dip_total_invested' = invested
                            /\ dip_purchases' = Append(dip_purchases,
                                   DipPurchase(row, investment, invested, coins))
                            /\ accumulated_cash' = CashAfterPurchase(cash)
                            /\ UNCHANGED missed_opportunities
                   ELSE /\ missed_opportunities' = missed_opportunities
                        /\ accumulated_cash' = cash
                        /\ UNCHANGED <<dip_total_coins, dip_total_invested,
                                       dip_purchases>>
           ELSE /\ accumulated_cash' = cash
                /\ UNCHANGED <<dip_days, missed_opportunities, dip_total_coins,
                               dip_total_invested, dip_purchases>>
    /\ UNCHANGED <<dip_pc, dip_self, dip_ret, dip_error>>
    /\ UNCHANGED <<inputs, dca_vars, cmp_vars, ext_vars>>

\* one iteration of `for idx, row in self.df.iterrows()`, lines 85-117
DipBar ==
    /\ dip_pc = "loop"
    /\ dip_i < Len(df)
    /\ dip_i' = dip_i + 1
    /\ LET row  == df[dip_i + 1]
           cash == Accrue(accumulated_cash, DailySavings(monthly_investment))
       IN  IF IsDipDay(row, dip_threshold)
           THEN /\ dip_days' = dip_days + 1
                /\ IF HasMinimumCash(cash)
                   THEN LET investment == cash
                            coins      == DipAccumulate(dip_total_coins,
                                               RDiv(investment, row.close))
                            invested   == DipAccumulate(dip_total_invested,
                                                        investment)
                        IN  /\ dip_total_coins' = coins
                            /\ dip_total_invested' = invested
                            /\ dip_purchases' = Append(dip_purchases,
                                   DipPurchase(row, investment, invested, coins))
                            /\ accumulated_cash' = CashAfterPurchase(cash)
                            /\ UNCHANGED missed_opportunities
                   ELSE /\ missed_opportunities' = missed_opportunities + 1
                        /\ accumulated_cash' = cash
                        /\ UNCHANGED <<dip_total_coins, dip_total_invested,
                                       dip_purchases>>
           ELSE /\ accumulated_cash' = cash
                /\ UNCHANGED <<dip_days, missed_opportunities, dip_total_coins,
                               dip_total_invested, dip_purchases>>
    /\ UNCHANGED <<dip_pc, dip_self, dip_ret, dip_error>>
    /\ UNCHANGED <<inputs, dca_vars, cmp_vars, ext_vars>>

\* after the loop, lines 119-163
DipFinish ==
    /\ dip_pc = "loop"
    /\ dip_i = Len(df)
    /\ dip_pc' = "done"
    /\ IF DipHasResult(dip_purchases)
       THEN LET results == DipResults(df, dip_purchases, dip_total_invested,
                                      dip_total_coins, accumulated_cash,
                                      dip_days, missed_opportunities,
                                      monthly_investment)
            IN  /\ dip_self' = [results |-> <<results>>, purchases |-> dip_purchases]
                /\ dip_ret' = <<results>>
       ELSE /\ dip_ret' = <<>>
            /\ UNCHANGED dip_self
    /\ UNCHANGED dip_error
    /\ UNCHANGED <<dip_i, accumulated_cash, dip_total_invested, dip_total_coins,
                   dip_purchases, dip_days, missed_opportunities>>
    /\ UNCHANGED <<inputs, dca_vars, cmp_vars, ext_vars>>

---------------------------------------------------------------------------
(* DCABacktest *)

\* self.df.groupby(['year', 'month']).first().reset_index(): one row per
\* (year, month) of the series, holding the values of the month's first bar
AllMonthlyData(s) ==
    LET months == UniqueMonths(s)
    IN  [k \in 1..Len(months) |-> MonthData(s, months[k][1], months[k][2])[1]]

\* int(x) of a non-negative rational
RInt(x) == x[1] \div x[2]

BtAccumulateLatest(total, amount) == amount

\* total_coins += coins_bought; total_invested += investment_amount
BtAccumulate(total, amount) == RAdd(total, amount)

BtPurchase(row, investment_amount, total_invested, total_coins, monthly) ==
    [date               |-> Date(row.date.year, row.date.month, 1),
     price              |-> row.close,
     investment_amount  |-> investment_amount,
     coins_bought       |-> RDiv(investment_amount, row.close),
     total_invested     |-> total_invested,
     total_coins        |-> total_coins,
     months_accumulated |-> RInt(RDiv(investment_amount, R(monthly)))]

BtSingleMonthBaseline(total_months, monthly) == R(monthly)

\* total_should_save = total_months * self.monthly_investment
BtTotalShouldSave(total_months, monthly) == RMul(R(total_months), R(monthly))

BtResults(s, month, purchases, total_invested, total_coins, cash, monthly) ==
    LET current_price     == CurrentPrice(s)
        current_value     == RMul(total_coins, current_price)
        with_cash         == RAdd(current_value, cash)
        total_months      == Len(AllMonthlyData(s))
        total_should_save == BtTotalShouldSave(total_months, monthly)
        total_return      == RSub(with_cash, total_should_save)
    IN  [month                   |-> month,
         total_invested          |-> total_invested,
         total_coins             |-> total_coins,
         avg_cost                |-> IF RGt(total_coins, Zero)
                                     THEN RDiv(total_invested, total_coins) ELSE Zero,
         current_price           |-> current_price,
         current_value           |-> current_value,
         accumulated_cash        |-> cash,
         current_value_with_cash |-> with_cash,
         total_return            |-> total_return,
         return_pct              |-> IF RGt(total_should_save, Zero)
                                     THEN RMul(RDiv(total_return, total_should_save),
                                               R(100))
                                     ELSE Zero,
         num_purchases           |-> Len(purchases),
         total_months            |-> total_months,
         total_should_save       |-> total_should_save,
         purchases               |-> purchases]

\* run_dca_strategy, lines 61-71: the monthly rows and the accumulators
BtStart ==
    /\ bt_pc = "start"
    /\ bt_k' = 0
    /\ bt_total_invested' = Zero
    /\ bt_total_coins' = Zero
    /\ bt_accumulated_cash' = Zero
    /\ bt_purchases' = <<>>
    /\ IF Len(AllMonthlyData(df)) = 0
       THEN bt_pc' = "done" /\ bt_ret' = <<>>
       ELSE bt_pc' = "loop" /\ UNCHANGED bt_ret
    /\ UNCHANGED target_month
    /\ UNCHANGED <<inputs, dca_vars, dip_vars, cmp_vars, run_vars, ana_vars>>

\* one iteration of `for idx, row in all_monthly_data.iterrows()`, lines 73-98
BtMonth ==
    /\ bt_pc = "loop"
    /\ bt_k < Len(AllMonthlyData(df))
    /\ bt_k' = bt_k + 1
    /\ LET row  == AllMonthlyData(df)[bt_k + 1]
           cash == RAdd(bt_accumulated_cash, R(monthly_investment))
       IN  IF row.date.month = target_month
           THEN LET investment_amount == cash
                    coins    == BtAccumulate(bt_total_coins,
                                             RDiv(investment_amount, row.close))
                    invested == BtAccumulate(bt_total_invested, investment_amount)
                IN  /\ bt_total_coins' = coins
                    /\ bt_total_invested' = invested
                    /\ bt_purchases' = Append(bt_purchases,
                           BtPurchase(row, investment_amount, invested, coins,
                                      monthly_investment))
                    /\ bt_accumulated_cash' = Zero
           ELSE /\ bt_accumulated_cash' = cash
                /\ UNCHANGED <<bt_total_coins, bt_total_invested, bt_purchases>>
    /\ UNCHANGED <<target_month, bt_pc, bt_ret>>
    /\ UNCHANGED <<inputs, dca_vars, dip_vars, cmp_vars, run_vars, ana_vars>>

\* after the loop, lines 100-133
BtFinish ==
    /\ bt_pc = "loop"
    /\ bt_k = Len(AllMonthlyData(df))
    /\ bt_pc' = "done"
    /\ bt_ret' = IF Len(bt_purchases) > 0
                 THEN <<BtResults(df, target_month, bt_purchases,
                                  bt_total_invested, bt_total_coins,
                                  bt_accumulated_cash, monthly_investment)>>
                 ELSE <<>>
    /\ UNCHANGED <<target_month, bt_k, bt_accumulated_cash, bt_total_invested,
                   bt_total_coins, bt_purchases>>
    /\ UNCHANGED <<inputs, dca_vars, dip_vars, cmp_vars, run_vars, ana_vars>>

---------------------------------------------------------------------------
(* A caller that runs an engine twice *)

\* the caller keeps what the first run_dca() gave and calls run_dca() again,
\* on the same instance or on a SimpleDCA built anew from the same arguments
DCAAgain ==
    /\ dca_pc = "done"
    /\ dca_first = <<>>
    /\ \E fresh \in BOOLEAN :
          /\ dca_first' = <<[ret |-> dca_ret, self |-> dca_self, fresh |-> fresh]>>
          /\ dca_self' = IF fresh THEN [results |-> <<>>, purchases |-> <<>>]
                                  ELSE dca_self
    /\ dca_pc' = "start"
    /\ UNCHANGED <<dca_k, dca_total_invested, dca_total_coins, dca_purchases,
                   dca_ret, dca_error>>
    /\ UNCHANGED <<inputs, dip_vars, cmp_vars, bt_vars, dip_first, ana_vars>>

\* the same for run_strategy() of BuyTheDip
DipAgain ==
    /\ dip_pc = "done"
    /\ dip_first = <<>>
    /\ \E fresh \in BOOLEAN :
          /\ dip_first' = <<[ret |-> dip_ret, self |-> dip_self, fresh |-> fresh]>>
          /\ dip_self' = IF fresh THEN [results |-> <<>>, purchases |-> <<>>]
                                  ELSE dip_self
    /\ dip_pc' = "start"
    /\ UNCHANGED <<dip_i, accumulated_cash, dip_total_invested, dip_total_coins,
                   dip_purchases, dip_days, missed_opportunities, dip_ret,
                   dip_error>>
    /\ UNCHANGED <<inputs, dca_vars, cmp_vars, bt_vars, dca_first, ana_vars>>

---------------------------------------------------------------------------
(* analyze_drops, analyze_seasonality *)

\* a row of the csv file: <<open, high, low, close>> on a date
OhlcBar(date, shape) ==
    [date |-> date, open |-> R(shape[1]), high |-> R(shape[2]),
     low |-> R(shape[3]), close |-> R(shape[4])]

\* pd.read_csv, set_index('timestamp'): the rows in ascending date order
MkOhlcSeries(D, f) ==
    LET ds == SortDates(D)
    IN  [i \in 1..Len(ds) |-> OhlcBar(ds[i], f[ds[i]])]

SeqLast(s) == s[Len(s)]

RECURSIVE SeqMin(_)
\* Series.min()
SeqMin(s) == IF Len(s) = 1 THEN s[1]
             ELSE RMin(SeqMin(SubSeq(s, 1, Len(s) - 1)), s[Len(s)])

CummaxOfLast(highs, i) == highs[i]

RECURSIVE Cummax(_, _)
\* group['high'].cummax() at position i
Cummax(highs, i) == IF i = 1 THEN highs[1]
                    ELSE RMax(Cummax(highs, i - 1), highs[i])

\* (b - a) / a * 100
PctOf(a, b) == RMul(RDiv(RSub(b, a), a), R(100))

\* the body of `for period, group in df.groupby('year_month')`, lines 121-144
DropsRow(period, group) ==
    LET open_price     == group[1].open
        close_price    == group[Len(group)].close
        highs          == Map(group, LAMBDA b : b.high)
        rolling_max    == [i \in 1..Len(group) |-> Cummax(highs, i)]
        daily_drawdown == [i \in 1..Len(group) |->
                              PctOf(rolling_max[i], group[i].low)]
        daily_drop     == [i \in 1..Len(group) |->
                              PctOf(group[i].open, group[i].close)]
    IN  [Period         |-> period,
         Open           |-> open_price,
         Close          |-> close_price,
         Return         |-> PctOf(open_price, close_price),
         Max_Drawdown   |-> SeqMin(daily_drawdown),
         Max_Daily_Drop |-> SeqMin(daily_drop)]

\* the list `results` of analyze_drops: one row per month period that has
\* rows, in period order
DropsResults(s) ==
    LET periods == UniqueMonths(s)
    IN  [k \in 1..Len(periods) |->
            DropsRow(periods[k], MonthData(s, periods[k][1], periods[k][2]))]

\* analyze_drops(file_path), lines 100-170
AnalyzeDrops ==
    /\ drops_results = <<>>
    /\ drops_results' = <<DropsResults(df)>>
    /\ UNCHANGED <<seasonality, august>>
    /\ UNCHANGED <<inputs, dca_vars, dip_vars, cmp_vars, bt_vars, run_vars>>

\* the index of resample('ME'): every calendar month from the month of the
\* first row to the month of the last row
MonthEnds(s) ==
    LET first == s[1].date.year * 12 + (s[1].date.month - 1)
        last  == s[Len(s)].date.year * 12 + (s[Len(s)].date.month - 1)
    IN  [k \in 1..(last - first + 1) |->
            <<(first + k - 1) \div 12, ((first + k - 1) % 12) + 1>>]

\* df['close'].resample('ME').last(): the last close of each month, NaN (<<>>)
\* for a month without rows
MonthlyClose(s) ==
    LET index == MonthEnds(s)
    IN  [k \in 1..Len(index) |->
            LET rows == MonthData(s, index[k][1], index[k][2])
            IN  IF Len(rows) = 0 THEN <<>> ELSE <<rows[Len(rows)].close>>]

RECURSIVE Ffill(_, _)
\* the value at position k after a forward fill
Ffill(values, k) ==
    IF values[k] # <<>> \/ k = 1 THEN values[k] ELSE Ffill(values, k - 1)

\* monthly_close.pct_change() * 100.  pad: whether this pandas forward-fills
\* NaN before the change is taken (the default up to pandas 2, not in pandas 3)
MonthlyReturns(monthly_close, pad) ==
    LET data == [k \in 1..Len(monthly_close) |->
                    IF pad THEN Ffill(monthly_close, k) ELSE monthly_close[k]]
    IN  [k \in 1..Len(data) |->
            IF k = 1 \/ data[k] = <<>> \/ data[k - 1] = <<>> THEN <<>>
            ELSE <<PctOf(data[k - 1][1], data[k][1])>>]

\* seasonality_df after dropna, lines 29-37
SeasonalityDf(s, pad) ==
    LET index   == MonthEnds(s)
        returns == MonthlyReturns(MonthlyClose(s), pad)
        rows    == [k \in 1..Len(index) |->
                       [Return |-> returns[k], Year |-> index[k][1],
                        Month |-> index[k][2]]]
    IN  Map(Filter(rows, LAMBDA r : r.Return # <<>>),
            LAMBDA r : [Return |-> r.Return[1], Year |-> r.Year, Month |-> r.Month])

\* stats, lines 40-51: per calendar month over the years of the pivot table
SeasonalityStats(seasonality_df) ==
    LET months == {seasonality_df[i].Month : i \in 1..Len(seasonality_df)}
    IN  [m \in months |->
            LET x == Filter(seasonality_df, LAMBDA r : r.Month = m)
                wins == Filter(x, LAMBDA r : RGt(r.Return, Zero))
            IN  [Win_Rate   |-> RMul(RDiv(R(Len(wins)), R(Len(x))), R(100)),
                 Avg_Return |-> RDiv(RSum(Map(x, LAMBDA r : r.Return)),
                                     R(Len(x)))]]

\* analyze_seasonality(file_path), lines 15-62
AnalyzeSeasonality ==
    /\ seasonality = <<>>
    /\ \E pad \in BOOLEAN :
          LET seasonality_df == SeasonalityDf(df, pad)
          IN  seasonality' = <<[seasonality_df |-> seasonality_df,
                                stats |-> SeasonalityStats(seasonality_df)]>>
    /\ UNCHANGED <<drops_results, august>>
    /\ UNCHANGED <<inputs, dca_vars, dip_vars, cmp_vars, bt_vars, run_vars>>

\* august_data['close'].pct_change() * 100 at row i of df, line 32: the change
\* against the previous August row (the value line 36 overwrites)
SubrangeReturn(s, i) ==
    LET before == {j \in 1..(i - 1) : s[j].date.month = 8}
    IN  IF before = {} THEN <<>>
        ELSE LET j == CHOOSE x \in before : \A y \in before : y <= x
             IN  <<PctOf(s[j].close, s[i].close)>>

\* df['close'].pct_change() * 100 at row i of df, line 35; NaN is <<>>
CrossBarReturn(s, i) == IF i = 1 THEN <<>> ELSE <<PctOf(s[i - 1].close, s[i].close)>>

\* august_data after line 36: the rows of August with day, year and the
\* daily_return looked up in df by timestamp
AugustData(s) ==
    LET rows == Filter([i \in 1..Len(s) |-> i], LAMBDA i : s[i].date.month = 8)
    IN  [k \in 1..Len(rows) |->
            [date         |-> s[rows[k]].date,
             close        |-> s[rows[k]].close,
             day          |-> s[rows[k]].date.day,
             year         |-> s[rows[k]].date.year,
             daily_return |-> CrossBarReturn(s, rows[k])]]

RECURSIVE Cumprod(_, _)
\* (1 + daily_return / 100).cumprod() up to position k, NaN rows skipped
Cumprod(year_data, k) ==
    IF k = 0 THEN R(1)
    ELSE IF year_data[k].daily_return = <<>> THEN Cumprod(year_data, k - 1)
    ELSE RMul(Cumprod(year_data, k - 1),
              RAdd(R(1), RDiv(year_data[k].daily_return[1], R(100))))

\* cumulative_returns of one year, lines 68-69: NaN where daily_return is NaN
CumulativeReturns(year_data) ==
    [k \in 1..Len(year_data) |->
        IF year_data[k].daily_return = <<>> THEN <<>>
        ELSE <<RMul(RSub(Cumprod(year_data, k), R(1)), R(100))>>]

\* the printed "August {year} Total Return" of every year, lines 63-76
AugustTotals(august_data) ==
    LET years == {august_data[k].year : k \in 1..Len(august_data)}
    IN  [year \in years |->
            LET year_data == Filter(august_data, LAMBDA r : r.year = year)
                cumulative_returns == CumulativeReturns(year_data)
            IN  cumulative_returns[Len(cumulative_returns)]]

\* analyze_august(file_path), lines 15-76 (the volatility figures, a square
\* root, and the charts are not part of the state)
AnalyzeAugust ==
    /\ august = <<>>
    /\ LET august_data == AugustData(df)
       IN  august' = <<[august_data |-> august_data,
                        totals |-> AugustTotals(august_data)]>>
    /\ UNCHANGED <<drops_results, seasonality>>
    /\ UNCHANGED <<inputs, dca_vars, dip_vars, cmp_vars, bt_vars, run_vars>>

---------------------------------------------------------------------------
(* StrategyComparison *)

WinnerSwapped(dca_wins) == IF dca_wins THEN "Buy the Dip" ELSE "Simple DCA"

Winner(dca_wins) == IF dca_wins THEN "Simple DCA" ELSE "Buy the Dip"

\* subscripting a result that is None raises TypeError
Subscriptable(r) == r # <<>>

\* print_comparison, lines 88-222, on self.results
PrintOutcome(results) ==
    IF results = <<>> THEN [error |-> "", printed |-> "No results available"]
    ELSE LET dca == results[1].simple_dca
             dip == results[1].buy_the_dip
         IN  IF ~Subscriptable(dca) \/ ~Subscriptable(dip)
             THEN [error |-> "TypeError", printed |-> ""]
             ELSE
             LET dca_r        == dca[1]
                 dip_r        == dip[1]
                 dca_btc      == dca_r.total_coins
                 dip_btc      == dip_r.total_coins
                 dca_invested == dca_r.total_invested
                 dip_invested == dip_r.total_invested
                 dca_avg      == dca_r.avg_cost
                 dip_avg      == dip_r.avg_cost
                 dca_return   == dca_r.return_pct
                 dip_return   == dip_r.return_pct
                 dca_util     == RMul(RDiv(dca_invested, dca_r.total_invested), R(100))
                 dip_util     == RMul(RDiv(dip_invested, dip_r.total_should_save), R(100))
                 score_dca    == (IF RGt(dca_btc, dip_btc) THEN 3 ELSE 0)
                                 + (IF RLt(dca_avg, dip_avg) THEN 2 ELSE 0)
                                 + (IF RGt(dca_return, dip_return) THEN 2 ELSE 0)
                                 + (IF RGt(dca_util, dip_util) THEN 1 ELSE 0)
                 score_dip    == (IF RGt(dca_btc, dip_btc) THEN 0 ELSE 3)
                                 + (IF RLt(dca_avg, dip_avg) THEN 0 ELSE 2)
                                 + (IF RGt(dca_return, dip_return) THEN 0 ELSE 2)
                                 + (IF RGt(dca_util, dip_util) THEN 0 ELSE 1)
             IN  [error             |-> "",
                  printed           |-> "comparison",
                  btc_winner        |-> Winner(RGt(dca_btc, dip_btc)),
                  btc_diff_pct      |-> RMul(RDiv(RAbs(RSub(dca_btc, dip_btc)),
                                                  RMax(dca_btc, dip_btc)), R(100)),
                  avg_winner        |-> Winner(RLt(dca_avg, dip_avg)),
                  value_winner      |-> Winner(RGt(dca_r.current_value,
                                                   dip_r.current_value)),
                  return_winner     |-> Winner(RGt(dca_return, dip_return)),
                  profit_winner     |-> Winner(RGt(dca_r.total_return,
                                                   dip_r.total_return)),
                  dca_util_printed  |-> R(100),
                  dip_util_printed  |-> dip_util,
                  dca_util          |-> dca_util,
                  dip_util          |-> dip_util,
                  scores            |-> [dca |-> score_dca, dip |-> score_dip],
                  winner            |-> Winner(score_dca >= score_dip),
                  more_efficient    |-> Winner(RGt(dca_util, dip_util)),
                  better_efficiency |-> Winner(RGt(RDiv(dca_btc, dca_invested),
                                                   RDiv(dip_btc, dip_invested)))]

\* export_comparison, lines 374-426, on self.results: the three columns written
ExportOutcome(results) ==
    IF results = <<>> THEN [error |-> "", written |-> FALSE]
    ELSE LET dca == results[1].simple_dca
             dip == results[1].buy_the_dip
         IN  IF ~Subscriptable(dca) \/ ~Subscriptable(dip)
             THEN [error |-> "TypeError", written |-> FALSE]
             ELSE
             LET dca_r == dca[1]
                 dip_r == dip[1]
             IN  [error       |-> "",
                  written     |-> TRUE,
                  Simple_DCA  |-> <<dca_r.total_coins, dca_r.total_invested,
                                    dca_r.avg_cost, R(dca_r.num_purchases),
                                    dca_r.current_price, dca_r.current_value,
                                    dca_r.return_pct, dca_r.total_return, R(100)>>,
                  Buy_the_Dip |-> <<dip_r.total_coins, dip_r.total_invested,
                                    dip_r.avg_cost, R(dip_r.num_purchases),
                                    dip_r.current_price, dip_r.current_value,
                                    dip_r.return_pct, dip_r.total_return,
                                    RMul(RDiv(dip_r.total_invested,
                                              dip_r.total_should_save), R(100))>>,
                  Winner      |-> <<Winner(RGt(dca_r.total_coins, dip_r.total_coins)),
                                    "",
                                    Winner(RLt(dca_r.avg_cost, dip_r.avg_cost)),
                                    "", "", "",
                                    Winner(RGt(dca_r.return_pct, dip_r.return_pct)),
                                    "", "">>]

\* run_all_strategies, lines 54-60: SimpleDCA(self.df.copy(), ...).run_dca()
CmpRunDCA ==
    /\ cmp_pc = "start"
    /\ cmp_pc' = "run_dca"
    /\ dca_pc' = "start"
    /\ UNCHANGED <<dca_k, dca_total_invested, dca_total_coins, dca_purchases,
                   dca_self, dca_ret, dca_error>>
    /\ UNCHANGED <<cmp_results, cmp_print, cmp_export>>
    /\ UNCHANGED <<inputs, dip_vars, ext_vars>>

\* run_all_strategies, lines 62-68: BuyTheDip(self.df.copy(), ...).run_strategy()
CmpRunDip ==
    /\ cmp_pc = "run_dca"
    /\ dca_pc = "done"
    /\ cmp_pc' = "run_dip"
    /\ dip_pc' = "start"
    /\ UNCHANGED <<dip_i, accumulated_cash, dip_total_invested, dip_total_coins,
                   dip_purchases, dip_days, missed_opportunities, dip_self, dip_ret,
                   dip_error>>
    /\ UNCHANGED <<cmp_results, cmp_print, cmp_export>>
    /\ UNCHANGED <<inputs, dca_vars, ext_vars>>

\* run_all_strategies, lines 70-80: self.results = {...}
CmpStore ==
    /\ cmp_pc = "run_dip"
    /\ dip_pc = "done"
    /\ cmp_pc' = "ran"
    /\ cmp_results' = <<[simple_dca |-> dca_ret, buy_the_dip |-> dip_ret]>>
    /\ UNCHANGED <<cmp_print, cmp_export>>
    /\ UNCHANGED <<inputs, dca_vars, dip_vars, ext_vars>>

\* an exception of an engine leaves run_all_strategies
CmpRaise ==
    /\ \/ cmp_pc = "run_dca" /\ dca_pc = "raised"
       \/ cmp_pc = "run_dip" /\ dip_pc = "raised"
    /\ cmp_pc' = "raised"
    /\ UNCHANGED <<cmp_results, cmp_print, cmp_export>>
    /\ UNCHANGED <<inputs, dca_vars, dip_vars, ext_vars>>

PrintComparison ==
    /\ cmp_pc \in {"start", "ran"}
    /\ cmp_print' = <<PrintOutcome(cmp_results)>>
    /\ UNCHANGED <<cmp_pc, cmp_results, cmp_export>>
    /\ UNCHANGED <<inputs, dca_vars, dip_vars, ext_vars>>

ExportComparison ==
    /\ cmp_pc \in {"start", "ran"}
    /\ cmp_export' = <<ExportOutcome(cmp_results)>>
    /\ UNCHANGED <<cmp_pc, cmp_results, cmp_print>>
    /\ UNCHANGED <<inputs, dca_vars, dip_vars, ext_vars>>

---------------------------------------------------------------------------
(* Initial states *)

\* SimpleDCA.__init__: self.purchases = [], self.results = {}
DCAIdle ==
    /\ dca_k = 0
    /\ dca_total_invested = Zero
    /\ dca_total_coins = Zero
    /\ dca_purchases = <<>>
    /\ dca_self = [results |-> <<>>, purchases |-> <<>>]
    /\ dca_ret = <<>>
    /\ dca_error = ""

\* BuyTheDip.__init__: self.purchases = [], self.results = {}
DipIdle ==
    /\ dip_i = 0
    /\ accumulated_cash = Zero
    /\ dip_total_invested = Zero
    /\ dip_total_coins = Zero
    /\ dip_purchases = <<>>
    /\ dip_days = 0
    /\ missed_opportunities = 0
    /\ dip_self = [results |-> <<>>, purchases |-> <<>>]
    /\ dip_ret = <<>>
    /\ dip_error = ""

\* StrategyComparison.__init__: self.results = {}
CmpIdle ==
    /\ cmp_results = <<>>
    /\ cmp_print = <<>>
    /\ cmp_export = <<>>

\* DCABacktest.__init__: self.results = {}; run_dca_strategy not called
BtIdle ==
    /\ bt_k = 0
    /\ bt_accumulated_cash = Zero
    /\ bt_total_invested = Zero
    /\ bt_total_coins = Zero
    /\ bt_purchases = <<>>
    /\ bt_ret = <<>>

\* no engine has been run a second time
RunIdle == dca_first = <<>> /\ dip_first = <<>>

\* neither analysis has been called
AnaIdle == drops_results = <<>> /\ seasonality = <<>> /\ august = <<>>

\* SimpleDCA(df, monthly_investment, day_of_month).run_dca()
InitDCA ==
    /\ \E D \in SUBSET DatesDCA :
          /\ Cardinality(D) \in 1..MaxBarsDCA
          /\ \E f \in [D -> ShapesDCA] : df = MkSeries(D, f)
    /\ monthly_investment \in Amounts
    /\ day_of_month \in TargetDays
    /\ dip_threshold = R(-5)
    /\ dca_pc = "start" /\ DCAIdle
    /\ dip_pc = "idle" /\ DipIdle
    /\ cmp_pc = "off" /\ CmpIdle
    /\ target_month = 1 /\ bt_pc = "idle" /\ BtIdle
    /\ RunIdle /\ AnaIdle

NextDCA == DCAStart \/ DCAMonth \/ DCAFinish

SpecDCA == InitDCA /\ [][NextDCA]_vars


\* BuyTheDip(df, monthly_savings, dip_threshold).run_strategy()
InitDip ==
    /\ \E n \in 1..MaxBarsDip :
          \E f \in [{Date(2024, 1, d) : d \in 1..n} -> Shapes] :
              df = MkSeries({Date(2024, 1, d) : d \in 1..n}, f)
    /\ monthly_investment \in Amounts
    /\ day_of_month = 5
    /\ dip_threshold \in Thresholds
    /\ dca_pc = "idle" /\ DCAIdle
    /\ dip_pc = "start" /\ DipIdle
    /\ cmp_pc = "off" /\ CmpIdle
    /\ target_month = 1 /\ bt_pc = "idle" /\ BtIdle
    /\ RunIdle /\ AnaIdle

NextDip == DipStart \/ DipBar \/ DipFinish

SpecDip == InitDip /\ [][NextDip]_vars


\* StrategyComparison(df, monthly_investment), then run_all_strategies(
\* dip_threshold, day_of_month), print_comparison() and export_comparison()
Init ==
    /\ \E D \in SUBSET DatesCmp :
          /\ Cardinality(D) \in 1..MaxBarsCmp
          /\ \E f \in [D -> Shapes] : df = MkSeries(D, f)
    /\ monthly_investment \in Amounts
    /\ day_of_month \in {5, 31}
    /\ dip_threshold \in Thresholds
    /\ dca_pc = "idle" /\ DCAIdle
    /\ dip_pc = "idle" /\ DipIdle
    /\ cmp_pc = "start" /\ CmpIdle
    /\ target_month = 1 /\ bt_pc = "idle" /\ BtIdle
    /\ RunIdle /\ AnaIdle

Next ==
    \/ CmpRunDCA \/ DCAStart \/ DCAMonth \/ DCAFinish
    \/ CmpRunDip \/ DipStart \/ DipBar \/ DipFinish
    \/ CmpStore \/ CmpRaise
    \/ PrintComparison \/ ExportComparison

Spec == Init /\ [][Next]_vars


\* the three engines, each built over the same series and stipend and each
\* running its back-test; the objects are independent, so their steps interleave
MaxBarsEng == 3      \* longest series given to the three engines together

NextBt == BtStart \/ BtMonth \/ BtFinish

InitEngines ==
    /\ \E D \in SUBSET DatesCmp :
          /\ Cardinality(D) \in 1..MaxBarsEng
          /\ \E f \in [D -> ShapesDCA] : df = MkSeries(D, f)
    /\ monthly_investment \in Amounts
    /\ day_of_month = 5
    /\ dip_threshold = R(-5)
    /\ dca_pc = "start" /\ DCAIdle
    /\ dip_pc = "start" /\ DipIdle
    /\ cmp_pc = "off" /\ CmpIdle
    /\ target_month \in {1, 2} /\ bt_pc = "start" /\ BtIdle
    /\ RunIdle /\ AnaIdle

NextEngines == NextDCA \/ NextDip \/ NextBt

SpecEngines == InitEngines /\ [][NextEngines]_vars


\* DCABacktest(df, monthly_investment).run_dca_strategy(target_month) over a
\* series that reaches into a second year
MaxBarsBt == 4       \* longest series given to DCABacktest
\* December, two bars of January, March after a month without bars, and the
\* January of the next year
DatesBt   == {Date(2023, 12, 5), Date(2024, 1, 5), Date(2024, 1, 20),
              Date(2024, 3, 5), Date(2025, 1, 5)}
TargetMonths == {1, 3, 6}

InitBacktest ==
    /\ \E D \in SUBSET DatesBt :
          /\ Cardinality(D) \in 1..MaxBarsBt
          /\ \E f \in [D -> ShapesDCA] : df = MkSeries(D, f)
    /\ monthly_investment \in Amounts
    /\ day_of_month = 5
    /\ dip_threshold = R(-5)
    /\ dca_pc = "idle" /\ DCAIdle
    /\ dip_pc = "idle" /\ DipIdle
    /\ cmp_pc = "off" /\ CmpIdle
    /\ target_month \in TargetMonths /\ bt_pc = "start" /\ BtIdle
    /\ RunIdle /\ AnaIdle

SpecBacktest == InitBacktest /\ [][NextBt]_vars


\* each engine is run, and then run a second time
MaxBarsRun == 2      \* longest series given to an engine that is run twice

InitRerun ==
    /\ \E D \in SUBSET DatesCmp :
          /\ Cardinality(D) \in 1..MaxBarsRun
          /\ \E f \in [D -> ShapesDCA] : df = MkSeries(D, f)
    /\ monthly_investment \in Amounts
    /\ day_of_month = 5
    /\ dip_threshold \in Thresholds
    /\ dca_pc = "start" /\ DCAIdle
    /\ dip_pc = "start" /\ DipIdle
    /\ cmp_pc = "off" /\ CmpIdle
    /\ target_month = 1 /\ bt_pc = "idle" /\ BtIdle
    /\ RunIdle /\ AnaIdle

NextRerun == NextDCA \/ DCAAgain \/ NextDip \/ DipAgain

SpecRerun == InitRerun /\ [][NextRerun]_vars


\* the two engines over a series in which a close may be negative
MaxBarsBad == 2      \* longest series with a non-positive close
BadShapes  == {<<100, 80>>, <<100, -100>>}

InitBadPrice ==
    /\ \E D \in SUBSET DatesCmp :
          /\ Cardinality(D) \in 1..MaxBarsBad
          /\ \E f \in [D -> BadShapes] : df = MkSeries(D, f)
    /\ monthly_investment \in Amounts
    /\ day_of_month = 5
    /\ dip_threshold \in Thresholds
    /\ dca_pc = "start" /\ DCAIdle
    /\ dip_pc = "start" /\ DipIdle
    /\ cmp_pc = "off" /\ CmpIdle
    /\ target_month = 1 /\ bt_pc = "idle" /\ BtIdle
    /\ RunIdle /\ AnaIdle

NextBadPrice == NextDCA \/ NextDip

SpecBadPrice == InitBadPrice /\ [][NextBadPrice]_vars


\* analyze_drops(file) and analyze_seasonality(file) over the same csv file
MaxBarsAna == 3      \* most rows of the csv file
OhlcShapes == {<<100, 110, 90, 105>>, <<100, 130, 95, 120>>, <<90, 95, 60, 70>>}
\* two rows of one month, the next month, a month after a month without rows,
\* and the first month a year later
DatesAna   == {Date(2024, 1, 10), Date(2024, 1, 20), Date(2024, 2, 10),
               Date(2024, 2, 20), Date(2024, 4, 10), Date(2025, 1, 10)}

InitAnalysis ==
    /\ \E D \in SUBSET DatesAna :
          /\ Cardinality(D) \in 1..MaxBarsAna
          /\ \E f \in [D -> OhlcShapes] : df = MkOhlcSeries(D, f)
    /\ monthly_investment = 1000
    /\ day_of_month = 5
    /\ dip_threshold = R(-5)
    /\ dca_pc = "idle" /\ DCAIdle
    /\ dip_pc = "idle" /\ DipIdle
    /\ cmp_pc = "off" /\ CmpIdle
    /\ target_month = 1 /\ bt_pc = "idle" /\ BtIdle
    /\ RunIdle /\ AnaIdle

NextAnalysis == AnalyzeDrops \/ AnalyzeSeasonality

SpecAnalysis == InitAnalysis /\ [][NextAnalysis]_vars


\* analyze_august(file) over a csv file with rows around two Augusts
MaxBarsAug == 3      \* most rows of the csv file
AugShapes  == {<<100, 110, 90, 100>>, <<100, 115, 95, 110>>, <<110, 125, 105, 121>>}
DatesAug   == {Date(2024, 7, 31), Date(2024, 8, 1), Date(2024, 8, 2),
               Date(2024, 8, 3), Date(2025, 8, 1)}

InitAugust ==
    /\ \E D \in SUBSET DatesAug :
          /\ Cardinality(D) \in 1..MaxBarsAug
          /\ \E f \in [D -> AugShapes] : df = MkOhlcSeries(D, f)
    /\ monthly_investment = 1000
    /\ day_of_month = 5
    /\ dip_threshold = R(-5)
    /\ dca_pc = "idle" /\ DCAIdle
    /\ dip_pc = "idle" /\ DipIdle
    /\ cmp_pc = "off" /\ CmpIdle
    /\ target_month = 1 /\ bt_pc = "idle" /\ BtIdle
    /\ RunIdle /\ AnaIdle

NextAugust == AnalyzeAugust

SpecAugust == InitAugust /\ [][NextAugust]_vars

---------------------------------------------------------------------------
(* Properties *)

Investments(purchases) == Map(purchases, LAMBDA q : q.investment)
CoinsBought(purchases) == Map(purchases, LAMBDA q : q.coins_bought)

\* the running totals agree with the purchase log, entry by entry
LogConserved(purchases, total_invested, total_coins) ==
    /\ total_invested = RSum(Investments(purchases))
    /\ total_coins = RSum(CoinsBought(purchases))
    /\ \A i \in 1..Len(purchases) :
          /\ purchases[i].total_invested = RSum(Investments(Prefix(purchases, i)))
          /\ purchases[i].total_coins = RSum(CoinsBought(Prefix(purchases, i)))

ResultConserved(ret) ==
    ret # <<>> =>
        /\ ret[1].total_invested = RSum(Investments(ret[1].purchases))
        /\ ret[1].total_coins = RSum(CoinsBought(ret[1].purchases))

\* C1: in both engines, after every purchase and in the final result, the
\* cumulative total_invested is the sum of the 'investment' of the purchase
\* log so far and the cumulative total_coins is the sum of its 'coins_bought'.
C1_Conservation ==
    /\ LogConserved(dca_purchases, dca_total_invested, dca_total_coins)
    /\ LogConserved(dip_purchases, dip_total_invested, dip_total_coins)
    /\ ResultConserved(dca_ret)
    /\ ResultConserved(dip_ret)

\* both engines have returned a result with at least two purchases each
C1_Witness ==
    /\ dca_ret # <<>> /\ Len(dca_ret[1].purchases) >= 2
    /\ dip_ret # <<>> /\ Len(dip_ret[1].purchases) >= 2

\* the trading dates of the series in calendar month (year, month)
MonthDates(s, year, month) ==
    {s[i].date : i \in {j \in 1..Len(s) :
                          s[j].date.year = year /\ s[j].date.month = month}}

\* the earliest trading date of the month on or after the target day, and
\* the last trading date of the month when there is none
ScheduledDate(s, year, month, target_day) ==
    LET S == MonthDates(s, year, month)
        T == {d \in S : d.day >= target_day}
    IN  IF T # {}
        THEN CHOOSE d \in T : \A x \in T : d.day <= x.day
        ELSE CHOOSE d \in S : \A x \in S : x.day <= d.day

\* a month of bars on the given days of January 2024
ExampleMonth(days) == [i \in 1..Len(days) |-> Bar(Date(2024, 1, days[i]), <<100, 100>>)]

\* C2: every month that run_dca has iterated has its purchase, whose date is
\* the earliest trading date of that month on or after the target day, or
\* the month's last trading date when no trading date reaches the target;
\* dates [3,4,5,8,9] with target 7 give 8, dates ending at 28 with target 31
\* give 28.
C2_SchedulerResult ==
    /\ Len(dca_purchases) = dca_k
    /\ \A i \in 1..Len(dca_purchases) :
          LET q == dca_purchases[i]
          IN  /\ <<q.year, q.month>> = UniqueMonths(df)[i]
              /\ q.date = ScheduledDate(df, q.year, q.month, day_of_month)
    /\ BuyDate(ExampleMonth(<<3, 4, 5, 8, 9>>), Date(2024, 1, 7)) = Date(2024, 1, 8)
    /\ BuyDate(ExampleMonth(<<3, 14, 28>>), Date(2024, 1, 31)) = Date(2024, 1, 28)

\* a finished run that bought on the 8th in a month trading on the 3rd, 8th
\* and 28th, with target day 7
C2_Witness ==
    /\ dca_pc = "done"
    /\ day_of_month = 7
    /\ \E i \in 1..Len(dca_purchases) :
          /\ Len(MonthData(df, dca_purchases[i].year, dca_purchases[i].month)) = 3
          /\ dca_purchases[i].date.day = 8

\* C3: for every target day in 1..31 and every month with a trading date,
\* also a month whose calendar is shorter than the target day, run_dca
\* resolves a purchase date and completes: it never ends in an error.
C3_FallbackNeverFails == dca_pc # "raised" /\ dca_error = ""

\* the months of the series
MonthsOf(s) == {<<s[i].date.year, s[i].date.month>> : i \in 1..Len(s)}

\* C4: when run_dca has ended, the purchases are one per
\* calendar month with data: as many as distinct (year, month) pairs, no two
\* in the same month, each month with a purchase dated inside it, each
\* acquiring monthly_investment / close(purchase date) units.
C4_OnePurchasePerMonth ==
    dca_pc \in {"done", "raised"} =>
        /\ Len(dca_purchases) = Cardinality(MonthsOf(df))
        /\ \A i, j \in 1..Len(dca_purchases) :
              i # j => <<dca_purchases[i].date.year, dca_purchases[i].date.month>>
                       # <<dca_purchases[j].date.year, dca_purchases[j].date.month>>
        /\ \A ym \in MonthsOf(df) :
              \E i \in 1..Len(dca_purchases) :
                  dca_purchases[i].date \in MonthDates(df, ym[1], ym[2])
        /\ \A i \in 1..Len(dca_purchases) :
              dca_purchases[i].coins_bought =
                  RDiv(R(monthly_investment), CloseAt(df, dca_purchases[i].date))

\* the spec's worked run: amount 1000, closes 100, 120, 80 on the purchase
\* dates, final close 80
DCAExampleRun ==
    /\ monthly_investment = 1000
    /\ Map(dca_purchases, LAMBDA q : q.price) = <<R(100), R(120), R(80)>>
    /\ df[Len(df)].close = R(80)

\* C10: the result of run_dca has total_invested = purchases * amount,
\* total_coins = sum of amount / close(purchase date), current_value =
\* total_coins * last close, return_pct = (current_value - total_invested) /
\* total_invested * 100 and avg_cost = total_invested / total_coins; the
\* worked run gives 3000, 30.8333.., 97.297.., 2466.67 and -17.78 %.
C10_DCAMetrics ==
    /\ dca_total_invested = R(Len(dca_purchases) * monthly_investment)
    /\ dca_pc = "done" => dca_ret # <<>>
    /\ dca_ret # <<>> =>
        LET r == dca_ret[1]
        IN  /\ r.num_purchases = Len(dca_purchases)
            /\ r.total_invested = R(r.num_purchases * monthly_investment)
            /\ r.total_coins =
                   RSum(Map(r.purchases,
                            LAMBDA q : RDiv(R(monthly_investment), CloseAt(df, q.date))))
            /\ r.current_value = RMul(r.total_coins, df[Len(df)].close)
            /\ RMul(r.return_pct, r.total_invested) =
                   RMul(R(100), RSub(r.current_value, r.total_invested))
            /\ RMul(r.avg_cost, r.total_coins) = r.total_invested
            /\ DCAExampleRun =>
                   /\ r.total_invested = R(3000)
                   /\ r.total_coins = <<185, 6>>
                   /\ r.avg_cost = <<3600, 37>>
                   /\ r.current_value = <<7400, 3>>
                   /\ r.return_pct = <<-160, 9>>

\* the worked run has returned its result
C10_Witness == dca_pc = "done" /\ dca_ret # <<>> /\ DCAExampleRun

\* run_strategy processes the next bar in this step
DipBarStep == dip_pc = "loop" /\ dip_i' = dip_i + 1

\* the bar processed by a DipBarStep and the cash at hand after its accrual
NextBar == df[dip_i + 1]
Stipend == Norm(monthly_investment, 30)
CashAtHand == RAdd(accumulated_cash, Stipend)

\* (close - open) / open * 100 <= dip_threshold, for a positive open
IntrabarDip(bar) ==
    RLe(RMul(R(100), RSub(bar.close, bar.open)), RMul(dip_threshold, bar.open))

\* C5: on each bar, after the accrual, a purchase happens iff the intrabar
\* return is <= dip_threshold and the cash is >= 100; it spends all the cash
\* at the bar's close, appends one purchase and leaves the cash at 0; on any
\* other bar the log is unchanged and the cash has grown by the accrual.
C5_DipPurchaseRule ==
    [][DipBarStep =>
          IF IntrabarDip(NextBar) /\ RGe(CashAtHand, R(100))
          THEN /\ Len(dip_purchases') = Len(dip_purchases) + 1
               /\ Prefix(dip_purchases', Len(dip_purchases)) = dip_purchases
               /\ LET q == dip_purchases'[Len(dip_purchases')]
                  IN  /\ q.date = NextBar.date
                      /\ q.price = NextBar.close
                      /\ q.investment = CashAtHand
                      /\ RMul(q.coins_bought, NextBar.close) = CashAtHand
               /\ accumulated_cash' = Zero
          ELSE /\ dip_purchases' = dip_purchases
               /\ accumulated_cash' = CashAtHand
               /\ RGt(accumulated_cash', accumulated_cash)
      ]_vars

\* a bar whose return is exactly the threshold was bought with the cash of
\* several bars, after a bar that was no dip
C5_Witness ==
    /\ dip_pc = "loop" /\ dip_i >= 2
    /\ ~IntrabarDip(df[dip_i - 1])
    /\ DailyReturn(df[dip_i]) = dip_threshold
    /\ dip_purchases # <<>>
    /\ dip_purchases[Len(dip_purchases)].date = df[dip_i].date
    /\ RGt(dip_purchases[Len(dip_purchases)].investment, Stipend)
    /\ accumulated_cash = Zero

\* the previous bar was bought, so the cash was reset there
BoughtPreviousBar ==
    /\ dip_i >= 1
    /\ dip_purchases # <<>>
    /\ dip_purchases[Len(dip_purchases)].date = df[dip_i].date

\* C6: on a dip bar whose cash after the accrual is below 100,
\* missed_opportunities grows by one, nothing is bought and the cash is kept;
\* on every other bar the counter is unchanged; a dip bar right after a bar
\* that was bought is missed whenever one day's stipend is below 100.
C6_MissedOpportunity ==
    [][DipBarStep =>
          /\ IF IntrabarDip(NextBar) /\ RLt(CashAtHand, R(100))
             THEN /\ missed_opportunities' = missed_opportunities + 1
                  /\ dip_purchases' = dip_purchases
                  /\ accumulated_cash' = CashAtHand
             ELSE missed_opportunities' = missed_opportunities
          /\ (/\ BoughtPreviousBar
              /\ IntrabarDip(NextBar)
              /\ RLt(Stipend, R(100)))
             => /\ missed_opportunities' = missed_opportunities + 1
                /\ dip_purchases' = dip_purchases
                /\ accumulated_cash' = Stipend
      ]_vars

\* two dip bars in succession: the first was bought, the second was missed
\* and left one day's stipend as cash
C6_Witness ==
    /\ dip_i >= 2
    /\ IntrabarDip(df[dip_i])
    /\ dip_purchases # <<>>
    /\ dip_purchases[Len(dip_purchases)].date = df[dip_i - 1].date
    /\ missed_opportunities >= 1
    /\ accumulated_cash = Stipend

\* C7: a run_strategy run never raises, and one that ends with zero
\* purchases returns None and leaves self.results empty (no return_pct or
\* avg_cost is computed).
C7_EmptyResult ==
    /\ dip_pc # "raised" /\ dip_error = ""
    /\ (dip_pc = "done" /\ dip_purchases = <<>>) =>
           dip_ret = <<>> /\ dip_self.results = <<>>

\* a run ended without a purchase although it saw dip bars
C7_Witness ==
    /\ dip_pc = "done" /\ dip_purchases = <<>>
    /\ dip_days >= 1 /\ missed_opportunities = dip_days

\* C9: a result of run_strategy has total_should_save = bars * stipend / 30,
\* value = total_coins * last close + leftover cash, total_return = value -
\* total_should_save and return_pct = total_return / total_should_save * 100.
C9_DipMetrics ==
    /\ (dip_pc = "done" /\ dip_purchases # <<>>) => dip_ret # <<>>
    /\ dip_ret # <<>> =>
        LET r == dip_ret[1]
        IN  /\ r.num_purchases = Len(dip_purchases) /\ r.num_purchases >= 1
            /\ r.total_days = Len(df)
            /\ r.total_should_save = Norm(Len(df) * monthly_investment, 30)
            /\ r.accumulated_cash = accumulated_cash
            /\ r.current_value_with_cash =
                   RAdd(RMul(r.total_coins, df[Len(df)].close), accumulated_cash)
            /\ r.total_return = RSub(r.current_value_with_cash, r.total_should_save)
            /\ RMul(r.return_pct, r.total_should_save) = RMul(R(100), r.total_return)

\* a result with two purchases and cash left over
C9_Witness ==
    /\ dip_pc = "done" /\ dip_ret # <<>>
    /\ Len(dip_purchases) >= 2
    /\ RGt(accumulated_cash, Zero)

\* run_all_strategies has stored an absent (None) result of an engine
StoredAbsentResult ==
    /\ cmp_pc = "ran"
    /\ cmp_results # <<>>
    /\ \/ cmp_results[1].simple_dca = <<>>
       \/ cmp_results[1].buy_the_dip = <<>>

\* C8: with an absent result stored by run_all_strategies, print_comparison
\* and export_comparison still complete, without an error.
C8_ComparatorToleratesEmpty ==
    StoredAbsentResult =>
        /\ cmp_print # <<>> => cmp_print[1].error = ""
        /\ cmp_export # <<>> => cmp_export[1].error = ""

---------------------------------------------------------------------------
(* Return baseline *)

\* the calendar months from the first bar's month to the last bar's month
MonthsElapsed(s) ==
    (s[Len(s)].date.year - s[1].date.year) * 12
        + (s[Len(s)].date.month - s[1].date.month) + 1

\* total_return and return_pct of a result, taken against a baseline
ReturnAgainst(r, final_value, baseline) ==
    /\ r.total_return = RSub(final_value, baseline)
    /\ r.return_pct = RMul(RDiv(RSub(final_value, baseline), baseline), R(100))

\* C11 as stated: every result of the three engines takes total_return and
\* return_pct against (calendar months elapsed in the series) * monthly
\* stipend.  BuyTheDip does not: its baseline is bars * stipend / 30.
C11_MonthsBaseline ==
    LET baseline == R(MonthsElapsed(df) * monthly_investment)
    IN  /\ dca_ret # <<>> =>
              ReturnAgainst(dca_ret[1], dca_ret[1].current_value, baseline)
        /\ dip_ret # <<>> =>
              ReturnAgainst(dip_ret[1], dip_ret[1].current_value_with_cash, baseline)
        /\ bt_ret # <<>> =>
              ReturnAgainst(bt_ret[1], bt_ret[1].current_value_with_cash, baseline)

\* C11 amended: each result takes total_return and return_pct against what
\* its engine should have saved: SimpleDCA and DCABacktest against (number of
\* months that have bars) * stipend, which for SimpleDCA is the cash spent;
\* BuyTheDip against (number of bars) * stipend / 30.  Cash left un-invested
\* is part of the final value of BuyTheDip and DCABacktest.
C11_ReturnBaseline ==
    LET months_saved == R(Len(UniqueMonths(df)) * monthly_investment)
        days_saved   == RMul(R(Len(df)), Stipend)
    IN  /\ dca_ret # <<>> =>
              /\ ReturnAgainst(dca_ret[1], dca_ret[1].current_value, months_saved)
              /\ dca_ret[1].total_invested = months_saved
        /\ dip_ret # <<>> =>
              /\ ReturnAgainst(dip_ret[1], dip_ret[1].current_value_with_cash,
                               days_saved)
              /\ dip_ret[1].current_value_with_cash
                     = RAdd(dip_ret[1].current_value, accumulated_cash)
              /\ days_saved = RAdd(dip_ret[1].total_invested, accumulated_cash)
        /\ bt_ret # <<>> =>
              /\ ReturnAgainst(bt_ret[1], bt_ret[1].current_value_with_cash,
                               months_saved)
              /\ bt_ret[1].current_value_with_cash
                     = RAdd(bt_ret[1].current_value, bt_accumulated_cash)
              /\ months_saved = RAdd(bt_ret[1].total_invested, bt_accumulated_cash)

\* the three engines returned a result over two months of bars, BuyTheDip and
\* DCABacktest each with cash left over
C11_Witness ==
    /\ dca_ret # <<>> /\ dip_ret # <<>> /\ bt_ret # <<>>
    /\ Len(UniqueMonths(df)) = 2
    /\ RGt(accumulated_cash, Zero)
    /\ RGt(bt_accumulated_cash, Zero)
    /\ RLt(dip_ret[1].total_invested, dip_ret[1].total_should_save)
    /\ RLt(bt_ret[1].total_invested, bt_ret[1].total_should_save)

---------------------------------------------------------------------------
(* The comparison of the two strategies *)

\* the label names a strategy exactly when that strategy is strictly better
StrictlyLabelled(label, dca_better, dip_better) ==
    /\ label = "Simple DCA" <=> dca_better
    /\ label = "Buy the Dip" <=> dip_better

Compared == cmp_results # <<>> /\ Subscriptable(cmp_results[1].simple_dca)
                               /\ Subscriptable(cmp_results[1].buy_the_dip)
\* print_comparison (export_comparison) has shown (written) the comparison
Printed  == Compared /\ cmp_print # <<>> /\ cmp_print[1].printed = "comparison"
Exported == Compared /\ cmp_export # <<>> /\ cmp_export[1].written

\* C12: for units, return % and capital utilization the winner label is Simple
\* DCA exactly when its value is strictly greater and Buy the Dip exactly when
\* its value is strictly greater; for average cost exactly when strictly
\* lower; in print_comparison and in export_comparison.  The code labels Buy
\* the Dip whenever Simple DCA is not strictly better, so also on a tie.
C12_StrictWinner ==
    LET dca == cmp_results[1].simple_dca[1]
        dip == cmp_results[1].buy_the_dip[1]
    IN  /\ Printed =>
              LET p == cmp_print[1]
              IN  /\ StrictlyLabelled(p.btc_winner,
                                      RGt(dca.total_coins, dip.total_coins),
                                      RGt(dip.total_coins, dca.total_coins))
                  /\ StrictlyLabelled(p.avg_winner,
                                      RLt(dca.avg_cost, dip.avg_cost),
                                      RLt(dip.avg_cost, dca.avg_cost))
                  /\ StrictlyLabelled(p.return_winner,
                                      RGt(dca.return_pct, dip.return_pct),
                                      RGt(dip.return_pct, dca.return_pct))
                  /\ StrictlyLabelled(p.more_efficient,
                                      RGt(p.dca_util, p.dip_util),
                                      RGt(p.dip_util, p.dca_util))
        /\ Exported =>
              LET x == cmp_export[1]
              IN  /\ StrictlyLabelled(x.Winner[1],
                                      RGt(dca.total_coins, dip.total_coins),
                                      RGt(dip.total_coins, dca.total_coins))
                  /\ StrictlyLabelled(x.Winner[3],
                                      RLt(dca.avg_cost, dip.avg_cost),
                                      RLt(dip.avg_cost, dca.avg_cost))
                  /\ StrictlyLabelled(x.Winner[7],
                                      RGt(dca.return_pct, dip.return_pct),
                                      RGt(dip.return_pct, dca.return_pct))

\* the metrics a strategy is labelled the winner of, out of the four scored
MetricsWon(p, label) ==
    Cardinality({m \in {"units", "avg_cost", "return_pct", "utilization"} :
        label = CASE m = "units"       -> p.btc_winner
                  [] m = "avg_cost"    -> p.avg_winner
                  [] m = "return_pct"  -> p.return_winner
                  [] m = "utilization" -> p.more_efficient})

\* C13: the score of print_comparison is an unweighted tally: a strategy's
\* score is the number of the four metrics it wins.  The code adds 3, 2, 2
\* and 1 points.
C13_UnweightedTally ==
    Printed =>
        /\ cmp_print[1].scores.dca = MetricsWon(cmp_print[1], "Simple DCA")
        /\ cmp_print[1].scores.dip = MetricsWon(cmp_print[1], "Buy the Dip")

\* capitalUtilizationPct = totalInvested / totalShouldSave * 100
Utilization(total_invested, total_should_save) ==
    RMul(RDiv(total_invested, total_should_save), R(100))

\* what SimpleDCA should have saved: months elapsed * monthly stipend
DCAShouldSave == R(MonthsElapsed(df) * monthly_investment)

\* C14: for each strategy the utilization printed, scored and exported is that
\* strategy's total_invested / total_should_save * 100.  For Simple DCA the
\* code divides total_invested by itself and prints and exports the literal
\* 100, also when a month of the series has no bars and nothing was invested
\* for it.
C14_Utilization ==
    LET dca == cmp_results[1].simple_dca[1]
        dip == cmp_results[1].buy_the_dip[1]
        dca_util == Utilization(dca.total_invested, DCAShouldSave)
        dip_util == Utilization(dip.total_invested, dip.total_should_save)
    IN  /\ Printed =>
              /\ cmp_print[1].dca_util_printed = dca_util
              /\ cmp_print[1].dca_util = dca_util
              /\ cmp_print[1].dip_util_printed = dip_util
              /\ cmp_print[1].dip_util = dip_util
        /\ Exported =>
              /\ cmp_export[1].Simple_DCA[9] = dca_util
              /\ cmp_export[1].Buy_the_Dip[9] = dip_util

---------------------------------------------------------------------------
(* The purchase logs *)

\* the entries are in date order
DateOrdered(purchases) ==
    \A i \in 1..(Len(purchases) - 1) :
        DateLT(purchases[i].date, purchases[i + 1].date)

\* the recorded cumulative totals never decrease from one entry to the next
NonDecreasing(purchases) ==
    \A i \in 1..(Len(purchases) - 1) :
        /\ RLe(purchases[i].total_invested, purchases[i + 1].total_invested)
        /\ RLe(purchases[i].total_coins, purchases[i + 1].total_coins)

\* C15: the purchase log of run_dca and of run_strategy is in date order and
\* its cumulative total_invested and total_coins never decrease from one entry
\* to the next (prices and stipend are positive); so in the returned result.
C15_Monotonic ==
    /\ DateOrdered(dca_purchases) /\ NonDecreasing(dca_purchases)
    /\ DateOrdered(dip_purchases) /\ NonDecreasing(dip_purchases)
    /\ dca_ret # <<>> => NonDecreasing(dca_ret[1].purchases)
    /\ dip_ret # <<>> => NonDecreasing(dip_ret[1].purchases)

\* both engines returned a log of two or more purchases at different prices
C15_Witness ==
    /\ dca_ret # <<>> /\ Len(dca_ret[1].purchases) >= 2
    /\ dip_ret # <<>> /\ Len(dip_ret[1].purchases) >= 2
    /\ RGt(dca_ret[1].purchases[1].price, dca_ret[1].purchases[2].price)
    /\ RLt(dip_ret[1].purchases[1].price, dip_ret[1].purchases[2].price)
    /\ RLt(dca_ret[1].purchases[1].total_coins, dca_ret[1].purchases[2].total_coins)

\* every entry's avg_price is the cash spent up to and including the entry
\* divided by the units bought up to and including it
AvgFromTotals(purchases) ==
    \A i \in 1..Len(purchases) :
        /\ purchases[i].avg_price
               = RDiv(purchases[i].total_invested, purchases[i].total_coins)
        /\ purchases[i].avg_price
               = RDiv(RSum(Investments(Prefix(purchases, i))),
                      RSum(CoinsBought(Prefix(purchases, i))))

\* C16: every purchase-log entry of SimpleDCA and of BuyTheDip has avg_price =
\* cumulative total_invested / cumulative total_coins at that entry, and a
\* result's avg_cost is the avg_price of the last entry of its log.
C16_AverageFromTotals ==
    /\ AvgFromTotals(dca_purchases)
    /\ AvgFromTotals(dip_purchases)
    /\ dca_ret # <<>> =>
          /\ AvgFromTotals(dca_ret[1].purchases)
          /\ dca_ret[1].avg_cost
                 = dca_ret[1].purchases[Len(dca_ret[1].purchases)].avg_price
    /\ dip_ret # <<>> =>
          /\ AvgFromTotals(dip_ret[1].purchases)
          /\ dip_ret[1].avg_cost
                 = dip_ret[1].purchases[Len(dip_ret[1].purchases)].avg_price

\* both engines returned two purchases at different prices, where the running
\* average is neither the last price nor the mean of the two prices
C16_Witness ==
    /\ dca_ret # <<>> /\ Len(dca_ret[1].purchases) = 2
    /\ dip_ret # <<>> /\ Len(dip_ret[1].purchases) = 2
    /\ \A log \in {dca_ret[1].purchases, dip_ret[1].purchases} :
          /\ log[1].price # log[2].price
          /\ log[2].avg_price # log[2].price
          /\ log[2].avg_price
                 # RDiv(RAdd(log[1].price, log[2].price), R(2))

---------------------------------------------------------------------------
(* Running an engine twice *)

\* C17: a second run_dca (run_strategy), on the same instance or on a fresh
\* one built from the same series and parameters, starts from zeroed
\* accumulators and an empty log, and returns a result and leaves a purchase
\* log identical to those of the first run.
C17_Idempotent ==
    /\ (dca_first # <<>> /\ dca_pc = "loop" /\ dca_k = 0) =>
          /\ dca_total_invested = Zero /\ dca_total_coins = Zero
          /\ dca_purchases = <<>>
    /\ (dca_first # <<>> /\ dca_pc = "done") =>
          /\ dca_ret = dca_first[1].ret
          /\ dca_self = dca_first[1].self
    /\ (dip_first # <<>> /\ dip_pc = "loop" /\ dip_i = 0) =>
          /\ dip_total_invested = Zero /\ dip_total_coins = Zero
          /\ accumulated_cash = Zero /\ dip_purchases = <<>>
          /\ dip_days = 0 /\ missed_opportunities = 0
    /\ (dip_first # <<>> /\ dip_pc = "done") =>
          /\ dip_ret = dip_first[1].ret
          /\ dip_self = dip_first[1].self

\* both engines finished a second run on the same instance, each after a
\* first run that bought, SimpleDCA twice, BuyTheDip with cash left over
C17_Witness ==
    /\ dca_first # <<>> /\ ~dca_first[1].fresh /\ dca_pc = "done"
    /\ dip_first # <<>> /\ ~dip_first[1].fresh /\ dip_pc = "done"
    /\ dca_ret # <<>> /\ Len(dca_ret[1].purchases) = 2
    /\ dip_ret # <<>> /\ Len(dip_self.purchases) >= 1
    /\ RGt(accumulated_cash, Zero)

---------------------------------------------------------------------------
(* Non-positive prices *)

PositivePrices(purchases) ==
    \A i \in 1..Len(purchases) : RGt(purchases[i].price, Zero)

\* C18: a purchase is never computed from a close that is zero or negative:
\* no such entry is ever appended to the log of run_dca or run_strategy, and
\* no result is returned whose log holds one (the run aborts instead).  The
\* code divides by the close without looking at its sign.
C18_NonPositiveFatal ==
    /\ PositivePrices(dca_purchases)
    /\ PositivePrices(dip_purchases)
    /\ dca_ret # <<>> => PositivePrices(dca_ret[1].purchases)
    /\ dip_ret # <<>> => PositivePrices(dip_ret[1].purchases)

---------------------------------------------------------------------------
(* Monthly aggregation *)

\* the rows of the file in calendar month (year, month)
BarsOf(s, year, month) ==
    {s[i] : i \in {j \in 1..Len(s) :
                      s[j].date.year = year /\ s[j].date.month = month}}

\* C19: a (year, month) with fewer than two bars contributes no row to the
\* results of analyze_drops and no sample to seasonality_df of
\* analyze_seasonality.  The code emits a row for a month of a single bar,
\* and a pandas that pads emits a zero return for a month without bars.
C19_ThinMonthSkipped ==
    /\ drops_results # <<>> =>
          \A k \in 1..Len(drops_results[1]) :
              Cardinality(BarsOf(df, drops_results[1][k].Period[1],
                                     drops_results[1][k].Period[2])) >= 2
    /\ seasonality # <<>> =>
          \A k \in 1..Len(seasonality[1].seasonality_df) :
              Cardinality(BarsOf(df, seasonality[1].seasonality_df[k].Year,
                                     seasonality[1].seasonality_df[k].Month)) >= 2

EarliestOf(B) == CHOOSE b \in B : \A c \in B : DateKey(b.date) <= DateKey(c.date)
LatestOf(B)   == CHOOSE b \in B : \A c \in B : DateKey(b.date) >= DateKey(c.date)

\* the highest high among the bars of B dated up to and including bar b
PeakUpTo(B, b) ==
    LET highs == {c.high : c \in {x \in B : DateKey(x.date) <= DateKey(b.date)}}
    IN  CHOOSE h \in highs : \A g \in highs : RGe(h, g)

\* the lowest of (low - peak so far) / peak so far * 100 over the bars of B
DeepestDrawdown(B) ==
    LET drawdowns == {RMul(RDiv(RSub(b.low, PeakUpTo(B, b)), PeakUpTo(B, b)),
                           R(100)) : b \in B}
    IN  CHOOSE d \in drawdowns : \A e \in drawdowns : RLe(d, e)

\* C20: analyze_drops reports one row per (year, month) that has bars, with
\* Return = (close of the month's last bar - open of its first bar) / that
\* open * 100 and Max Drawdown = the minimum over the month's bars of
\* (low - running max of high) / running max of high * 100, the running max
\* taken over the bars of that same month up to the current bar.
C20_MonthlyReturnDrawdown ==
    drops_results # <<>> =>
        LET results == drops_results[1]
        IN  /\ Len(results) = Len(UniqueMonths(df))
            /\ \A k \in 1..Len(results) :
                  LET B == BarsOf(df, results[k].Period[1], results[k].Period[2])
                      first == EarliestOf(B)
                      last  == LatestOf(B)
                  IN  /\ results[k].Period = UniqueMonths(df)[k]
                      /\ results[k].Return
                             = RMul(RDiv(RSub(last.close, first.open), first.open),
                                    R(100))
                      /\ results[k].Max_Drawdown = DeepestDrawdown(B)

\* analyze_drops ran over a month of two bars whose first high is the higher
\* one, followed by a month whose highs stay below that peak
C20_Witness ==
    /\ drops_results # <<>>
    /\ Len(drops_results[1]) = 2
    /\ Len(df) = 3
    /\ df[1].date.month = df[2].date.month
    /\ RGt(df[1].high, df[2].high)
    /\ RGt(df[1].high, df[3].high)
    /\ RLt(drops_results[1][1].Max_Drawdown,
           RMul(RDiv(RSub(df[2].low, df[2].high), df[2].high), R(100)))
    /\ drops_results[1][2].Max_Drawdown
           = RMul(RDiv(RSub(df[3].low, df[3].high), df[3].high), R(100))

---------------------------------------------------------------------------
(* Seasonality *)

\* the calendar month before (year, month)
PreviousMonth(year, month) ==
    IF month = 1 THEN <<year - 1, 12>> ELSE <<year, month - 1>>

\* the sample of (year, month) is the change from the last close of the
\* calendar month before it to the last close of the month itself
FromConsecutiveCloses(s, sample) ==
    LET prev == PreviousMonth(sample.Year, sample.Month)
        B == BarsOf(s, sample.Year, sample.Month)
        A == BarsOf(s, prev[1], prev[2])
    IN  /\ A # {} /\ B # {}
        /\ sample.Return
               = RMul(RDiv(RSub(LatestOf(B).close, LatestOf(A).close),
                           LatestOf(A).close), R(100))

\* one sample at most per (calendar month, year)
OneSamplePerMonthYear(seasonality_df) ==
    \A i, j \in 1..Len(seasonality_df) :
        (seasonality_df[i].Year = seasonality_df[j].Year
            /\ seasonality_df[i].Month = seasonality_df[j].Month) => i = j

\* stats has a row for each calendar month that has samples, its win rate
\* being (samples > 0) / (samples) * 100, between 0 and 100
WinRateOfSamples(seasonality_df, stats) ==
    /\ DOMAIN stats = {seasonality_df[i].Month : i \in 1..Len(seasonality_df)}
    /\ \A m \in DOMAIN stats :
          LET of_m == {i \in 1..Len(seasonality_df) : seasonality_df[i].Month = m}
              wins == {i \in of_m : RGt(seasonality_df[i].Return, Zero)}
          IN  /\ stats[m].Win_Rate
                     = Norm(Cardinality(wins) * 100, Cardinality(of_m))
              /\ RGe(stats[m].Win_Rate, Zero)
              /\ RLe(stats[m].Win_Rate, R(100))

\* C21: analyze_seasonality has at most one return sample per (calendar
\* month, year), every sample is taken from the month-end closes of two
\* consecutive calendar months, and each calendar month's Win Rate (%) is
\* (samples > 0) / (samples) * 100, between 0 and 100.  A pandas that pads
\* gives a month without bars a sample, taken from no close of that month.
C21_SeasonalWinRate ==
    seasonality # <<>> =>
        /\ OneSamplePerMonthYear(seasonality[1].seasonality_df)
        /\ \A k \in 1..Len(seasonality[1].seasonality_df) :
              FromConsecutiveCloses(df, seasonality[1].seasonality_df[k])
        /\ WinRateOfSamples(seasonality[1].seasonality_df, seasonality[1].stats)

---------------------------------------------------------------------------
(* Cross-bar daily return *)

\* the position in s of the row dated date
RowOf(s, date) == CHOOSE i \in 1..Len(s) : s[i].date = date

\* the rows of August of one year, as positions in s
AugustOf(s, year) == {i \in 1..Len(s) : s[i].date.month = 8 /\ s[i].date.year = year}

\* C22: the daily return of every August row is the change of its close
\* against the close of the row immediately before it in the whole file (the
\* last July row for the first row of an August), times 100, and undefined for
\* the first row of the file; a year's compounded August return is therefore
\* the change from the close before its first August row (from that row's own
\* close when nothing comes before it) to its last August close.
C22_CrossBarReturn ==
    august # <<>> =>
        /\ \A k \in 1..Len(august[1].august_data) :
              LET row == august[1].august_data[k]
                  i   == RowOf(df, row.date)
              IN  IF i = 1 THEN row.daily_return = <<>>
                  ELSE row.daily_return =
                         <<RMul(RDiv(RSub(df[i].close, df[i - 1].close),
                                     df[i - 1].close), R(100))>>
        /\ \A year \in DOMAIN august[1].totals :
              LET rows  == AugustOf(df, year)
                  first == CHOOSE i \in rows : \A j \in rows : i <= j
                  last  == CHOOSE i \in rows : \A j \in rows : j <= i
                  base  == IF first = 1 THEN df[1].close ELSE df[first - 1].close
              IN  IF last = 1 THEN august[1].totals[year] = <<>>
                  ELSE august[1].totals[year] =
                         <<RMul(RSub(RDiv(df[last].close, base), R(1)), R(100))>>

\* a July row, then the first August row measured against it, then a second
\* August row: closes 100, 110, 121 give returns 10, 10 and a total of 21
C22_Witness ==
    /\ august # <<>>
    /\ Len(df) = 3
    /\ df[1].date.month = 7
    /\ Len(august[1].august_data) = 2
    /\ august[1].august_data[1].daily_return = <<R(10)>>
    /\ august[1].august_data[2].daily_return = <<R(10)>>
    /\ august[1].totals[2024] = <<R(21)>>

---------------------------------------------------------------------------
(* Engine isolation *)

RECURSIVE DCAAlone(_, _, _, _)
\* the accumulators of a SimpleDCA that has run its first k months over s with
\* nothing else running
DCAAlone(s, monthly, day, k) ==
    IF k = 0 THEN [total_invested |-> Zero, total_coins |-> Zero, purchases |-> <<>>]
    ELSE LET before     == DCAAlone(s, monthly, day, k - 1)
             row        == UniqueMonths(s)[k]
             month_data == MonthData(s, row[1], row[2])
             buy_date   == BuyDate(month_data, Date(row[1], row[2], day))
             price      == CloseAt(s, buy_date)
             invested   == RAdd(before.total_invested, R(monthly))
             coins      == RAdd(before.total_coins, RDiv(R(monthly), price))
         IN  [total_invested |-> invested,
              total_coins    |-> coins,
              purchases      |-> Append(before.purchases,
                                    DCAPurchase(buy_date, row[1], row[2], price,
                                                R(monthly), invested, coins))]

\* what run_dca returns when nothing else runs
DCAAloneResult(s, monthly, day) ==
    LET end == DCAAlone(s, monthly, day, Len(UniqueMonths(s)))
    IN  IF Len(end.purchases) > 0
        THEN <<DCAResults(s, end.purchases, end.total_invested, end.total_coins)>>
        ELSE <<>>

RECURSIVE DipAlone(_, _, _, _)
\* the accumulators of a BuyTheDip that has run its first i bars over s with
\* nothing else running
DipAlone(s, monthly, threshold, i) ==
    IF i = 0 THEN [cash |-> Zero, total_invested |-> Zero, total_coins |-> Zero,
                   purchases |-> <<>>, dip_days |-> 0, missed |-> 0]
    ELSE LET before == DipAlone(s, monthly, threshold, i - 1)
             row    == s[i]
             cash   == RAdd(before.cash, Norm(monthly, 30))
         IN  IF ~IsDipDay(row, threshold)
             THEN [before EXCEPT !.cash = cash]
             ELSE IF ~HasMinimumCash(cash)
             THEN [before EXCEPT !.cash = cash, !.dip_days = @ + 1,
                                 !.missed = @ + 1]
             ELSE LET invested == RAdd(before.total_invested, cash)
                      coins    == RAdd(before.total_coins, RDiv(cash, row.close))
                  IN  [cash           |-> Zero,
                       total_invested |-> invested,
                       total_coins    |-> coins,
                       purchases      |-> Append(before.purchases,
                                             DipPurchase(row, cash, invested, coins)),
                       dip_days       |-> before.dip_days + 1,
                       missed         |-> before.missed]

\* what run_strategy returns when nothing else runs
DipAloneResult(s, monthly, threshold) ==
    LET end == DipAlone(s, monthly, threshold, Len(s))
    IN  IF Len(end.purchases) > 0
        THEN <<DipResults(s, end.purchases, end.total_invested, end.total_coins,
                          end.cash, end.dip_days, end.missed, monthly)>>
        ELSE <<>>

---------------------------------------------------------------------------
(* Dip accounting *)

\* C24: after every bar of run_strategy, total_invested + accumulated_cash is
\* (bars processed) * monthly_savings / 30 and the cash is not negative; a
\* result has total_invested + leftover cash = total_should_save and
\* total_invested <= total_should_save.
C24_CashConservation ==
    /\ dip_pc \in {"loop", "done"} =>
          /\ RAdd(dip_total_invested, accumulated_cash) =
                 Norm(dip_i * monthly_investment, 30)
          /\ RGe(accumulated_cash, Zero)
    /\ dip_ret # <<>> =>
          /\ RAdd(dip_ret[1].total_invested, dip_ret[1].accumulated_cash) =
                 dip_ret[1].total_should_save
          /\ RLe(dip_ret[1].total_invested, dip_ret[1].total_should_save)

\* a finished run with one purchase in the middle and cash saved after it
C24_Witness ==
    /\ dip_pc = "done" /\ dip_ret # <<>>
    /\ Len(dip_purchases) = 1
    /\ dip_purchases[1].date # df[Len(df)].date
    /\ RGt(dip_ret[1].accumulated_cash, Zero)
    /\ RLt(dip_ret[1].total_invested, dip_ret[1].total_should_save)

\* C25: after every bar of run_strategy, dip_days = purchases +
\* missed_opportunities; a dip bar increments dip_days and exactly one of the
\* other two, any other bar changes none of the three.
C25_DipDaysPartition ==
    /\ [](dip_pc \in {"loop", "done"} =>
            dip_days = Len(dip_purchases) + missed_opportunities)
    /\ [][DipBarStep =>
            IF IntrabarDip(NextBar)
            THEN /\ dip_days' = dip_days + 1
                 /\ \/ /\ Len(dip_purchases') = Len(dip_purchases) + 1
                       /\ missed_opportunities' = missed_opportunities
                    \/ /\ Len(dip_purchases') = Len(dip_purchases)
                       /\ missed_opportunities' = missed_opportunities + 1
            ELSE /\ dip_days' = dip_days
                 /\ Len(dip_purchases') = Len(dip_purchases)
                 /\ missed_opportunities' = missed_opportunities
       ]_vars

\* a run that has seen a dip bar it bought, a dip bar it missed and a bar
\* that was no dip
C25_Witness ==
    /\ dip_pc \in {"loop", "done"}
    /\ Len(dip_purchases) >= 1 /\ missed_opportunities >= 1
    /\ dip_i > dip_days

\* the number of bars from the bar after the previous purchase (from the
\* first bar for the first purchase) up to and including the bar of purchase j
BarsSaved(s, purchases, j) ==
    RowOf(s, purchases[j].date)
        - (IF j = 1 THEN 0 ELSE RowOf(s, purchases[j - 1].date))

\* C26: every purchase of run_strategy spends k * monthly_savings / 30, k >= 1
\* being the bars since the previous purchase (since the start for the first
\* one) with the purchase bar counted, and that is at least 100; with
\* monthly_savings / 30 >= 100 no dip day is a missed opportunity.
C26_PurchaseSize ==
    dip_pc \in {"loop", "done"} =>
        /\ \A j \in 1..Len(dip_purchases) :
              LET k == BarsSaved(df, dip_purchases, j)
              IN  /\ k >= 1
                  /\ dip_purchases[j].investment = Norm(k * monthly_investment, 30)
                  /\ RGe(dip_purchases[j].investment, R(100))
        /\ RGe(Stipend, R(100)) =>
              /\ missed_opportunities = 0
              /\ Len(dip_purchases) = dip_days

\* daily savings of exactly 100: a purchase of one day's savings, then one of
\* two days' savings, and no dip day missed
C26_Witness ==
    /\ dip_pc \in {"loop", "done"}
    /\ Stipend = R(100)
    /\ Len(dip_purchases) >= 2
    /\ dip_purchases[1].investment = R(100)
    /\ dip_purchases[2].investment = R(200)
    /\ dip_days = 2 /\ missed_opportunities = 0

---------------------------------------------------------------------------
(* Purchase log *)

\* the dates of log are strictly increasing, and every entry carries the date
\* of a bar of s and the close of that bar as its price
LogFollowsSeries(s, log) ==
    /\ \A j \in 1..(Len(log) - 1) : DateLT(log[j].date, log[j + 1].date)
    /\ \A j \in 1..Len(log) :
          \E i \in 1..Len(s) : s[i].date = log[j].date /\ log[j].price = s[i].close

\* C27: at every moment of run_dca and of run_strategy the purchase log has
\* strictly increasing dates, each of them the date of a bar of the series,
\* and the price recorded is the close of that bar.
C27_LogFollowsSeries ==
    /\ LogFollowsSeries(df, dca_purchases)
    /\ LogFollowsSeries(df, dip_purchases)
    /\ dca_ret # <<>> => LogFollowsSeries(df, dca_self.purchases)
    /\ dip_ret # <<>> => LogFollowsSeries(df, dip_self.purchases)

\* both engines have logged two purchases, SimpleDCA one of them on a bar
\* after the target day
C27_Witness ==
    /\ Len(dca_purchases) >= 2 /\ Len(dip_purchases) >= 2
    /\ \E j \in 1..Len(dca_purchases) : dca_purchases[j].date.day # day_of_month

---------------------------------------------------------------------------
(* Target-month DCA *)

\* the positions, among the first k (year, month) groups of s, of the groups
\* whose month is the target month
TargetRows(s, month, k) ==
    Filter([i \in 1..k |-> i], LAMBDA i : AllMonthlyData(s)[i].date.month = month)

\* C28: in run_dca_strategy(target_month), after every (year, month) group of
\* the series total_invested + accumulated_cash = (groups processed) *
\* monthly_investment; there is one purchase for each processed group of the
\* target month and none else; it is dated the first of that month, priced at
\* the close of the group's first bar, and spends monthly_investment times
\* months_accumulated, the number of groups since the previous purchase (since
\* the start for the first one) with its own counted; the cash is what was
\* added since the last purchase, 0 right after one; and the run returns None
\* exactly when no group of the series is of the target month.
C28_TargetMonthConservation ==
    bt_pc \in {"loop", "done"} =>
        LET rows == TargetRows(df, target_month, bt_k)
            last == IF Len(rows) = 0 THEN 0 ELSE rows[Len(rows)]
        IN  /\ RAdd(bt_total_invested, bt_accumulated_cash) =
                   R(bt_k * monthly_investment)
            /\ bt_accumulated_cash = R((bt_k - last) * monthly_investment)
            /\ Len(bt_purchases) = Len(rows)
            /\ \A j \in 1..Len(rows) :
                  LET q      == bt_purchases[j]
                      first  == MonthData(df, q.date.year, q.date.month)[1]
                      months == rows[j] - (IF j = 1 THEN 0 ELSE rows[j - 1])
                  IN  /\ q.date = Date(AllMonthlyData(df)[rows[j]].date.year,
                                       target_month, 1)
                      /\ q.price = first.close
                      /\ q.months_accumulated = months
                      /\ q.investment_amount = R(months * monthly_investment)
                      /\ RMul(q.coins_bought, first.close) = q.investment_amount
            /\ bt_pc = "done" =>
                  (bt_ret = <<>> <=>
                      TargetRows(df, target_month, Len(AllMonthlyData(df))) = <<>>)

\* two purchases, the second with the savings of more than one month
C28_Witness ==
    /\ bt_pc = "done" /\ bt_ret # <<>>
    /\ Len(bt_purchases) = 2
    /\ bt_purchases[2].months_accumulated >= 2
    /\ bt_purchases[2].date.year = 2025

---------------------------------------------------------------------------
(* Drawdown sign *)

\* (low - high) / high * 100 of one bar
IntrabarRange(bar) == RMul(RDiv(RSub(bar.low, bar.high), bar.high), R(100))

\* C29: for every month of analyze_drops whose bars have low <= high, the
\* running maximum of high never decreases from one bar of the month to the
\* next, and the month's Max Drawdown is <= 0 and <= (low - high) / high * 100
\* of each of its bars.
C29_DrawdownSign ==
    drops_results # <<>> =>
        \A k \in 1..Len(drops_results[1]) :
            LET row   == drops_results[1][k]
                group == MonthData(df, row.Period[1], row.Period[2])
                highs == Map(group, LAMBDA b : b.high)
            IN  (\A i \in 1..Len(group) : RLe(group[i].low, group[i].high)) =>
                    /\ \A i \in 1..(Len(group) - 1) :
                          RLe(Cummax(highs, i), Cummax(highs, i + 1))
                    /\ RLe(row.Max_Drawdown, Zero)
                    /\ \A i \in 1..Len(group) :
                          RLe(row.Max_Drawdown, IntrabarRange(group[i]))

\* a month of two bars whose drawdown, from the high of the first bar to the
\* low of the second, is deeper than the range of either bar
C29_Witness ==
    /\ drops_results # <<>>
    /\ \E k \in 1..Len(drops_results[1]) :
          LET row   == drops_results[1][k]
              group == MonthData(df, row.Period[1], row.Period[2])
          IN  /\ Len(group) = 2
              /\ RLt(group[2].high, group[1].high)
              /\ \A i \in 1..2 : RLt(row.Max_Drawdown, IntrabarRange(group[i]))

---------------------------------------------------------------------------
(* Scoring *)

\* the points a metric worth n gives to strategy who, given the winner the
\* comparison names for that metric
Points(n, named, who) == IF named = who THEN n ELSE 0

\* the score of strategy who from the four metric winners of a comparison
ScoreOf(outcome, who) ==
    Points(3, outcome.btc_winner, who) + Points(2, outcome.avg_winner, who)
        + Points(2, outcome.return_winner, who)
        + Points(1, outcome.more_efficient, who)

\* C30: in every comparison print_comparison prints, each of the four scored
\* metrics gives its points (3, 2, 2, 1) to exactly one strategy, the one it
\* names for that metric, so the two scores sum to 8; the announced winner is
\* the strategy with the higher score, and Simple DCA when both have 4.
C30_ScoringTotal ==
    Printed =>
        LET o == cmp_print[1]
        IN  /\ {o.btc_winner, o.avg_winner, o.return_winner, o.more_efficient}
                   \subseteq {"Simple DCA", "Buy the Dip"}
            /\ o.scores.dca = ScoreOf(o, "Simple DCA")
            /\ o.scores.dip = ScoreOf(o, "Buy the Dip")
            /\ o.scores.dca + o.scores.dip = 8
            /\ o.scores.dca > o.scores.dip => o.winner = "Simple DCA"
            /\ o.scores.dip > o.scores.dca => o.winner = "Buy the Dip"
            /\ o.scores.dca = o.scores.dip => o.winner = "Simple DCA"

\* a printed comparison with four points each, announced for Simple DCA
C30_Witness ==
    /\ Printed
    /\ cmp_print[1].scores.dca = 4 /\ cmp_print[1].scores.dip = 4
    /\ cmp_print[1].winner = "Simple DCA"

=============================================================================
